---- MODULE Spec2Model ----
(***************************************************************************)
(* WhiteboardXR: the stroke pipeline (live preview capture, jitter         *)
(* smoothing, density filtering, chunking, B-spline -> Bezier fitting,     *)
(* chunk tessellation) and the stroke store with its shared z-index        *)
(* counter.                                                                *)
(*                                                                         *)
(* Numbers.  The program computes in IEEE doubles.  Here every coordinate  *)
(* is an integer count of grid units and every division rounds to the      *)
(* nearest grid value (RoundDiv); matrix entries and interpolation         *)
(* weights are fixed-point numbers with Scale units to 1.  Indices are     *)
(* kept 0-based as in the source wherever the source stores them           *)
(* (startIndex, endIndex, index buffers); TLA+ sequences are 1-based, so   *)
(* points[i] of the source is points[i + 1] here.                          *)
(***************************************************************************)
EXTENDS Integers, Sequences, FiniteSets, Bags, TLC

VARIABLES
    \* ---- createChunks applied to one point list
    chkPoints,      \* the point list handed to createChunks
    chkChunks,      \* the chunk list it returned
    chkDone,        \* whether createChunks has run
    \* ---- BezierConverter.createSegment applied to one point list
    fitPoints,      \* the point list handed to createSegment
    fitSegments,    \* the segment list it returned
    fitDone,        \* whether createSegment has run
    \* ---- createChunkGeometry applied to one chunk's segments
    geoSegments,    \* the segments handed to createChunkGeometry
    geoStartCap,    \* startCapPosition: Null or <<point>>
    geoEndCap,      \* endCapPosition: Null or <<point>>
    geoCamera,      \* this.camera: Null or <<camera>>
    geoFacts,       \* geometryFacts of the geometry it returned
    geoBuffers,     \* bufferFacts of the geometry it returned
    geoDone,        \* whether createChunkGeometry has run
    \* ---- StrokeRenderer.smoothPoints applied to one point list
    smPoints,       \* the point list handed to smoothPoints
    smSmoothed,     \* the list it returned
    smDone,         \* whether smoothPoints has run
    smTwice,        \* Null, or <<the list smoothPoints returned for smSmoothed>>
    \* ---- StrokeRenderer: the live preview of the stroke being drawn
    srCurrentLine,          \* this.currentLine: Null or <<mesh>>
    srStartCap,             \* this.startCap: Null or <<mesh>>
    srEndCap,               \* this.endCap: Null or <<mesh>>
    srPoints,               \* this.points: the pixel-filtered points
    srAllPoints,            \* this.allPoints: every sample
    srLastScreenPosition,   \* this.lastScreenPosition: Null or <<{x, y}>>
    samples,        \* history: the samples captured since the last startStroke
    drawn,          \* history: Null, or <<the list the last onDrawEnd got from endStroke>>
    simplified,     \* history: Null, or <<the list that onDrawEnd handed to createStroke>>
    \* ---- WhiteboardDemo and its managers: the stroke and image stores
    globalZIndex,           \* WhiteboardDemo.globalZIndex, the shared counter
    strokes,                \* StrokeManager.strokes
    images,                 \* ImageManager.images
    selectedStrokes,        \* SelectionManager.selectedStrokes (references)
    whiteboard,             \* ids of the children of the whiteboard (parent)
    scene,                  \* ids of the preview objects among scene's children
    disposed,               \* the bag of dispose() calls: resource -> number of calls
    allocated,              \* history: the resources made for strokes and for the
                            \* live preview, each with its owner
    held,                   \* stroke objects no longer stored that a caller still holds
    nextId,                 \* objects are named by their order of creation
    debugMode,              \* UIController.debugMode
    sceneCamera,            \* the camera shared by the managers: <<camera>>
    isDragging,             \* TransformManager.isDragging
    dragStartPoint,         \* TransformManager.dragStartPoint: Null or <<point>>
    strokeOriginalPoints,   \* TransformManager.strokeOriginalPoints
    previewLines,           \* TransformManager.previewLines
    originalStrokesVisibility,  \* TransformManager.originalStrokesVisibility
    \* ---- the recovery from a failed fit, taken on its own
    recC,           \* the matrix handed to Matrix.inverse
    recInverse,     \* Null, or <<the outcome of inverse for recC>>
    recFailed,      \* the chunks (by index) whose fit returns [] in createStroke
    \* ---- the while loop of createChunks, one iteration at a time
    loopStartIdx,   \* startIdx
    loopIterations, \* history: the number of times the loop body has run
    \* ---- calculateSubdivisions as the view is zoomed (the camera is geoCamera)
    subCount,       \* Null, or <<what calculateSubdivisions returned for this view>>
    subPrev,        \* history: Null, or <<the view height before the last zoom and
                    \* what calculateSubdivisions returned for it>>
    \* ---- getStats of the stroke created from chkPoints
    stats,          \* Null, or <<what getStats returned: Null or <<the statistics>>>>
    \* ---- the StrokeManager API called in any order
    apiArgs,        \* history: the ids of the strokes handed to the last delete call
    apiCreated,     \* history: the createStroke calls that returned a stroke
    apiDeleted,     \* history: the deleteStroke calls that found their stroke stored
    \* ---- TransformManager: scaling, and the history of a transform session
    isScaling,                      \* TransformManager.isScaling
    scaleHandle,                    \* TransformManager.scaleHandle: Null or <<direction>>
    scaleStartPoint,                \* TransformManager.scaleStartPoint: Null or <<point>>
    scaleStartBounds,               \* TransformManager.scaleStartBounds: Null or <<bounds>>
    strokesOriginalPointsForScale,  \* TransformManager.strokesOriginalPointsForScale
    currentFlipX,                   \* TransformManager.currentFlipX
    currentFlipY,                   \* TransformManager.currentFlipY
    pointer,        \* history: Null, or <<the point of the latest updateDrag / updateScale>>
    atStart,        \* history: the selected strokes' points when the session started
    ribbonSource,   \* the builder that last wrote the ribbon: "updateLineGeometry",
                    \* "updateRibbonGeometry" or "none"
    ribbonPoints,   \* the points the ribbon was built from (allPoints / points)
    ribbonHalfWidth, \* halfWidth of that build
    ribbonPositions, \* the position attribute it wrote, one vertex per entry
    vrActive,       \* app.vrDrawingManager and app.vrPenController exist
    vrLoop,         \* the XR animation loop: "running", or "stopped" after a throw
    vrPhase,        \* what the running frame does next: "pen" (vrPenController.update)
                    \* or "drawing" (vrDrawingManager.update)
    vrDebugMode,    \* uiController.getPenSettings().debugMode
    pen,            \* VRPenController: isGrabbed, wasGripPressed, parent
    penTouching,    \* checkWhiteboardCollision().touching in this frame
    dm,             \* VRDrawingManager: state, isDrawing, callbacks (registered),
                    \* and of its last handler: calls (made), threw
    vrOpen,         \* history: strokeRenderer has a stroke started by the manager
    vrDrawEnds,     \* history: draw-end callbacks since the last startStroke
    vrStrokes,      \* history: strokes started
    vrLast,         \* history: the last handler run
    imIsDrawing,    \* InputManager.isDrawing
    imIsPanning,    \* InputManager.isPanning
    imDrawingEnabled, \* InputManager.drawingEnabled
    imCalls,        \* history: the draw callbacks the last handler called
    imOpen,         \* history: onDrawStart calls not yet followed by an onDrawEnd
    imLast,         \* history: the last handler run
    call,           \* history: the last handler, the createStroke call it made
    rebuilt         \* history: ids of the strokes whose meshes the last handler built

chunkVars == <<chkPoints, chkChunks, chkDone>>

fitVars == <<fitPoints, fitSegments, fitDone>>

geomVars == <<geoSegments, geoStartCap, geoEndCap, geoCamera, geoFacts, geoBuffers,
              geoDone>>

smoothVars == <<smPoints, smSmoothed, smDone, smTwice>>

liveVars == <<srCurrentLine, srStartCap, srEndCap, srPoints, srAllPoints,
              srLastScreenPosition, samples, drawn, simplified>>

dragVars == <<isDragging, dragStartPoint, strokeOriginalPoints, previewLines,
              originalStrokesVisibility>>

storeVars == <<globalZIndex, strokes, images, selectedStrokes, whiteboard, scene,
               disposed, allocated, held, nextId, debugMode, sceneCamera, dragVars,
               call, rebuilt>>

recoverVars == <<recC, recInverse, recFailed>>

loopVars == <<loopStartIdx, loopIterations>>

subdivVars == <<subCount, subPrev>>

apiVars == <<apiArgs, apiCreated, apiDeleted>>

transformVars == <<isScaling, scaleHandle, scaleStartPoint, scaleStartBounds, strokesOriginalPointsForScale, currentFlipX, currentFlipY, pointer, atStart>>

ribbonVars == <<ribbonSource, ribbonPoints, ribbonHalfWidth, ribbonPositions>>

vrVars == <<vrActive, vrLoop, vrPhase, vrDebugMode, pen, penTouching, dm, vrOpen, vrDrawEnds, vrStrokes, vrLast>>

inputVars == <<imIsDrawing, imIsPanning, imDrawingEnabled, imCalls, imOpen, imLast>>

laterVars == <<loopVars, subdivVars, stats, apiVars, transformVars, ribbonVars, vrVars, inputVars>>

\* The later groups but one.
laterButLoop == <<subdivVars, stats, apiVars, transformVars, ribbonVars, vrVars, inputVars>>
laterButSubdiv == <<loopVars, stats, apiVars, transformVars, ribbonVars, vrVars, inputVars>>
laterButStats == <<loopVars, subdivVars, apiVars, transformVars, ribbonVars, vrVars, inputVars>>
laterButApi == <<loopVars, subdivVars, stats, transformVars, ribbonVars, vrVars, inputVars>>
laterButTransform == <<loopVars, subdivVars, stats, apiVars, ribbonVars, vrVars, inputVars>>
laterButRibbon == <<loopVars, subdivVars, stats, apiVars, transformVars, vrVars, inputVars>>
laterButVR == <<loopVars, subdivVars, stats, apiVars, transformVars, ribbonVars, inputVars>>
laterButInput == <<loopVars, subdivVars, stats, apiVars, transformVars, ribbonVars, vrVars>>

vars == <<chunkVars, fitVars, geomVars, smoothVars, liveVars, storeVars, recoverVars,
          laterVars>>

\* ------------------------------------------------------------------------
\* Bounds of the model
\* ------------------------------------------------------------------------

\* Longest point list handed to createChunks on its own (4 chunks at 31).
MaxChunkLen == 31

\* Longest point list handed to createSegment on its own (a full chunk).
MaxFitLen == 12

\* Longest chunk tessellated on its own.
MaxGeomLen == 6

\* Longest point list handed to smoothPoints on its own.
MaxSmoothLen == 4

\* Most samples of one drawing gesture.
MaxSamples == 5

\* Most objects (strokes, images, materials, meshes) ever created.
MaxIds == 11

\* Largest value of the shared z-index counter.
MaxZ == 3

\* Most stroke objects the caller of the lifecycle model creates.
MaxLifeStrokes == 1

\* Most dispose() calls on one resource that the lifecycle model follows.
MaxDisposals == 2

\* The largest view height drawn for calculateSubdivisions, in tenths of a
\* world unit.
MaxViewTenths == 60

\* The longest point list handed to createStroke for getStats.
MaxStatsLen == 31

\* The most strokes created before a transform session.
MaxTransformStrokes == 2

\* The most points in a preview ribbon.
MaxRibbonLen == 4

\* The most strokes started in the VR sessions of a run.
MaxVRStrokes == 3

\* The most draw starts that may be awaiting their end.
MaxOpenStarts == 3

\* Grid units to 1: the resolution of the fixed-point numbers.
Scale == 8192

\* ------------------------------------------------------------------------
\* Numbers and points
\* ------------------------------------------------------------------------

Min(a, b) == IF a < b THEN a ELSE b

Max(a, b) == IF a > b THEN a ELSE b

Abs(a) == IF a < 0 THEN 0 - a ELSE a

\* THREE.Vector3
Vector3(x, y, z) == [x |-> x, y |-> y, z |-> z]

\* Array.prototype.slice(start, end) on a 1-based sequence, 0-based bounds.
slice(arr, start, end) == SubSeq(arr, start + 1, end)

\* The sequence f with its elements computed once: TLC otherwise recomputes
\* an element of [i \in 1..n |-> e] at every use.
Strict(f) == SubSeq(f, 1, Len(f))

\* A point list of n points along a line: the inputs the bounded checks draw.
LinePoints(n, step, z) == [i \in 1..n |-> Vector3(i * step, i, z)]

\* ------------------------------------------------------------------------
\* Fixed-point arithmetic
\* ------------------------------------------------------------------------

\* a / b rounded to the nearest integer (b # 0).
RoundDiv(a, b) ==
    IF b < 0 THEN ((2 * (0 - a)) + (0 - b)) \div (2 * (0 - b))
             ELSE ((2 * a) + b) \div (2 * b)

\* The product and the quotient of two fixed-point numbers.
FMul(a, b) == RoundDiv(a * b, Scale)

FDiv(a, b) == RoundDiv(a * Scale, b)

\* The fixed-point number of the integer k.
Fix(k) == k * Scale

\* ------------------------------------------------------------------------
\* Matrix
\* ------------------------------------------------------------------------

\* new Matrix(rows, cols): all zeros.
Matrix(rows, cols) ==
    [rows |-> rows, cols |-> cols,
     data |-> Strict([i \in 1..rows |-> Strict([j \in 1..cols |-> 0])])]

\* Matrix.multiply(A, B); the dimension check throws.
multiply(A, B) ==
    IF A.cols # B.rows
    THEN [ok |-> FALSE, m |-> Matrix(0, 0)]
    ELSE [ok |-> TRUE,
          m |-> [rows |-> A.rows, cols |-> B.cols,
                 data |-> Strict([i \in 1..A.rows |-> Strict([j \in 1..B.cols |->
                     LET RECURSIVE sum(_)
                         sum(k) == IF k = 0 THEN 0
                                   ELSE sum(k - 1) + FMul(A.data[i][k], B.data[k][j])
                     IN  sum(A.cols)])])]]

\* The pivot search of inverse(): the row from i down with the largest
\* |augmented[k][i]|, the first such row on ties.
RECURSIVE findPivot(_, _, _, _, _)
findPivot(augmented, i, k, maxRow, n) ==
    IF k > n THEN maxRow
    ELSE findPivot(augmented, i, k + 1,
                   IF Abs(augmented[k][i]) > Abs(augmented[maxRow][i]) THEN k ELSE maxRow,
                   n)

\* Math.abs(augmented[i][i]) < 1e-10.  1e-10 is below one grid unit, so on
\* the grid the test is that the pivot is zero.
isSingularPivot(pivot) == Abs(pivot) < 1

\* Make all rows below row i zero in column i.
eliminateBelow(augmented, i, n) ==
    Strict([k \in 1..n |->
        IF k > i
        THEN LET factor == FDiv(augmented[k][i], augmented[i][i])
             IN  Strict([j \in 1..(2 * n) |->
                     IF j >= i
                     THEN augmented[k][j] - FMul(factor, augmented[i][j])
                     ELSE augmented[k][j]])
        ELSE augmented[k]])

\* Forward elimination from row i; ok is FALSE when the singular check throws.
RECURSIVE forwardElimination(_, _, _)
forwardElimination(augmented, i, n) ==
    IF i > n THEN [ok |-> TRUE, augmented |-> augmented]
    ELSE LET maxRow == findPivot(augmented, i, i + 1, i, n)
             swapped == [augmented EXCEPT ![i] = augmented[maxRow],
                                          ![maxRow] = augmented[i]]
         IN  IF isSingularPivot(swapped[i][i])
             THEN [ok |-> FALSE, augmented |-> swapped]
             ELSE forwardElimination(eliminateBelow(swapped, i, n), i + 1, n)

\* Back substitution from row i up: normalize the pivot row, eliminate above.
RECURSIVE backSubstitution(_, _, _)
backSubstitution(augmented, i, n) ==
    IF i < 1 THEN augmented
    ELSE LET pivot == augmented[i][i]
             row == Strict([j \in 1..(2 * n) |-> FDiv(augmented[i][j], pivot)])
             cleared == Strict([k \in 1..n |->
                            IF k < i
                            THEN LET factor == augmented[k][i]
                                 IN  Strict([j \in 1..(2 * n) |->
                                         augmented[k][j] - FMul(factor, row[j])])
                            ELSE IF k = i THEN row ELSE augmented[k]])
         IN  backSubstitution(cleared, i - 1, n)

\* Matrix.inverse(): Gaussian elimination on [A|I]; ok is FALSE when it
\* throws (not square, or singular).
inverse(A) ==
    IF A.rows # A.cols
    THEN [ok |-> FALSE, m |-> A]
    ELSE LET n == A.rows
             augmented == Strict([i \in 1..n |-> Strict([j \in 1..(2 * n) |->
                              IF j <= n THEN A.data[i][j]
                              ELSE IF j - n = i THEN Fix(1) ELSE 0])])
             fwd == forwardElimination(augmented, 1, n)
         IN  IF ~fwd.ok
             THEN [ok |-> FALSE, m |-> A]
             ELSE LET done == backSubstitution(fwd.augmented, n, n)
                  IN  [ok |-> TRUE,
                       m |-> [A EXCEPT !.data =
                                 Strict([i \in 1..n |->
                                     Strict([j \in 1..n |-> done[i][n + j]])])]]

\* ------------------------------------------------------------------------
\* BezierConverter
\* ------------------------------------------------------------------------

BezierQuadruple(p0, p1, p2, p3) == [p0 |-> p0, p1 |-> p1, p2 |-> p2, p3 |-> p3]

\* lerp(p0, p1, t) = p0 + (p1 - p0) * t
lerp(p0, p1, t) == p0 + FMul(p1 - p0, t)

onethird == RoundDiv(Scale, 3)

twothirds == RoundDiv(2 * Scale, 3)

\* The tridiagonal matrix C ((n-2) x (n-2)): 4 on the diagonal, 1 beside it.
constantMatrix(m) ==
    [rows |-> m, cols |-> m,
     data |-> Strict([i \in 1..m |-> Strict([j \in 1..m |->
                  IF i = j THEN Fix(4)
                  ELSE IF Abs(i - j) = 1 THEN Fix(1) ELSE 0])])]

\* The coefficient matrix S ((n-2) x 2): x and y of 6*P[1] - P[0], then
\* 6*P[i+1], then 6*P[n-2] - P[n-1].
coefficientMatrix(points) ==
    LET n == Len(points)
        row(r) == IF r = 1
                  THEN <<6 * points[2].x - points[1].x, 6 * points[2].y - points[1].y>>
                  ELSE IF r = n - 2
                  THEN <<6 * points[n - 1].x - points[n].x,
                         6 * points[n - 1].y - points[n].y>>
                  ELSE <<6 * points[r + 1].x, 6 * points[r + 1].y>>
    IN  [rows |-> n - 2, cols |-> 2, data |-> Strict([r \in 1..(n - 2) |-> row(r)])]

\* The middle control points: for i = 2, 4, ... below (n-2)*2, two points
\* between the B-spline nodes B[idx-1] and B[idx], idx = i / 2.
RECURSIVE middleControlPoints_previousKnot(_, _, _, _)
middleControlPoints_previousKnot(points, B, i, D) ==
    IF ~(i < (Len(points) - 2) * 2) THEN D
    ELSE LET idx == i \div 2
             d1 == Vector3(lerp(B[idx][1], B[idx + 1][1], onethird),
                           lerp(B[idx][2], B[idx + 1][2], onethird),
                           points[idx].z)
             d2 == Vector3(lerp(B[idx][1], B[idx + 1][1], twothirds),
                           lerp(B[idx][2], B[idx + 1][2], twothirds),
                           points[idx].z)
         IN  middleControlPoints_previousKnot(points, B, i + 2, D \o <<d1, d2>>)

RECURSIVE middleControlPoints(_, _, _, _)
middleControlPoints(points, B, i, D) ==
    IF ~(i < (Len(points) - 2) * 2) THEN D
    ELSE LET idx == i \div 2
             d1 == Vector3(lerp(B[idx][1], B[idx + 1][1], onethird),
                           lerp(B[idx][2], B[idx + 1][2], onethird),
                           points[idx + 1].z)
             d2 == Vector3(lerp(B[idx][1], B[idx + 1][1], twothirds),
                           lerp(B[idx][2], B[idx + 1][2], twothirds),
                           points[idx + 1].z)
         IN  middleControlPoints(points, B, i + 2, D \o <<d1, d2>>)

\* The control point list D of createSegment, B being the B-spline nodes.
controlPoints(points, B) ==
    LET n == Len(points)
        first == << Vector3(lerp(points[1].x, B[1][1], onethird),
                            lerp(points[1].y, B[1][2], onethird),
                            points[1].z),
                    Vector3(lerp(points[1].x, B[1][1], twothirds),
                            lerp(points[1].y, B[1][2], twothirds),
                            points[1].z) >>
        last == << Vector3(lerp(B[n - 2][1], points[n].x, onethird),
                           lerp(B[n - 2][2], points[n].y, onethird),
                           points[n].z),
                   Vector3(lerp(B[n - 2][1], points[n].x, twothirds),
                           lerp(B[n - 2][2], points[n].y, twothirds),
                           points[n].z) >>
    IN  middleControlPoints(points, B, 2, first) \o last

\* for (i = 0; i < n - 1; i++) bezierSegments.push(new BezierQuadruple(
\*     points[i], D[i*2], D[i*2+1], points[i+1]))
RECURSIVE segmentLoop_shortByOne(_, _, _, _)
segmentLoop_shortByOne(points, D, i, bezierSegments) ==
    IF ~(i < Len(points) - 2) THEN bezierSegments
    ELSE segmentLoop_shortByOne(points, D, i + 1,
             Append(bezierSegments,
                    BezierQuadruple(points[i + 1], D[i * 2 + 1], D[i * 2 + 2],
                                    points[i + 2])))

RECURSIVE segmentLoop(_, _, _, _)
segmentLoop(points, D, i, bezierSegments) ==
    IF ~(i < Len(points) - 1) THEN bezierSegments
    ELSE segmentLoop(points, D, i + 1,
             Append(bezierSegments,
                    BezierQuadruple(points[i + 1], D[i * 2 + 1], D[i * 2 + 2],
                                    points[i + 2])))

\* C.inverse() for C = constantMatrix(m).  Neither C nor its inverse depends
\* on the points, so the outcome is evaluated once for each size m a point
\* list of this model can ask for (n - 2 for a list of n points).
constantMatrixInverse ==
    Strict([m \in 1..MaxFitLen |-> inverse(constantMatrix(m))])

\* The try block of createSegment from B = C.multiply(S) on, B being the
\* outcome of the multiplication: a throw gives [].
segmentsFromProduct(points, B) ==
    IF ~B.ok THEN <<>>
    ELSE segmentLoop(points, controlPoints(points, B.m.data), 0, <<>>)

segmentsFromInverse_throwIgnored(points, C) ==
    segmentsFromProduct(points, multiply(C.m, coefficientMatrix(points)))

\* The try block of createSegment from C = C.inverse() on, C being the
\* outcome of the inversion: a throw gives [].
segmentsFromInverse(points, C) ==
    IF ~C.ok THEN <<>>
    ELSE segmentsFromProduct(points, multiply(C.m, coefficientMatrix(points)))

\* BezierConverter.createSegment(points) with the outcome C of C.inverse()
\* given: [] for fewer than 4 points and when the try block throws.
createSegmentOn(points, C) ==
    IF Len(points) < 4 THEN <<>> ELSE segmentsFromInverse(points, C)

\* BezierConverter.createSegment(points): [] for fewer than 4 points and
\* when anything inside the try block throws.
createSegment(points) ==
    IF Len(points) < 4 THEN <<>>
    ELSE segmentsFromInverse(points, constantMatrixInverse[Len(points) - 2])

\* ------------------------------------------------------------------------
\* ChunkedBezierStrokeManager: chunking
\* ------------------------------------------------------------------------

\* this.chunkSize
chunkSize == 12

\* this.chunkOverlap
chunkOverlap == 3

\* The fewest points a window needs to be emitted (the fit's minimum).
minChunkPoints_five == 4 + 1

minChunkPoints == 4

nextStart_sameWindow(endIdx) == endIdx - chunkSize

\* startIdx = endIdx - this.chunkOverlap
nextStart_noOverlap(endIdx) == endIdx

nextStart(endIdx) == endIdx - chunkOverlap

\* The while loop of createChunks, from startIdx with the chunks so far.
RECURSIVE chunkLoop(_, _, _)
chunkLoop(points, startIdx, chunks) ==
    IF ~(startIdx < Len(points))
    THEN chunks
    ELSE LET endIdx == Min(startIdx + chunkSize, Len(points))
             chunkPoints == slice(points, startIdx, endIdx)
             chunks1 == IF Len(chunkPoints) >= minChunkPoints
                        THEN Append(chunks, [startIndex |-> startIdx,
                                             endIndex |-> endIdx,
                                             points |-> chunkPoints])
                        ELSE chunks
         IN  IF endIdx >= Len(points)
             THEN chunks1
             ELSE chunkLoop(points, nextStart(endIdx), chunks1)

createChunks(points) == chunkLoop(points, 0, <<>>)

\* ------------------------------------------------------------------------
\* ChunkedBezierStrokeManager: tessellation
\* ------------------------------------------------------------------------

\* null
Null == <<>>

\* A value that may be null: Null, or <<v>>.
Some(v) == <<v>>

\* this.baseSubdivisions
baseSubdivisions == 20

\* this.maxSubdivisions
maxSubdivisions == 200

\* const defaultViewHeight = 3
defaultViewHeight == 3

\* The desktop camera: orthographic, the given view height around the
\* origin, the width following the window's aspect (4 : 3 here).
Camera(viewHeight) ==
    [left |-> 0 - ((viewHeight * 4) \div 6),
     right |-> (viewHeight * 4) \div 6,
     top |-> viewHeight \div 2,
     bottom |-> (viewHeight \div 2) - viewHeight,
     position |-> Vector3(0, 0, 5 * Scale)]

calculateSubdivisions_noUpperClamp(camera) ==
    IF camera = Null THEN baseSubdivisions
    ELSE Max(baseSubdivisions,
             RoundDiv(baseSubdivisions
                          * FDiv(Fix(defaultViewHeight), camera[1].top - camera[1].bottom),
                      Scale))

\* calculateSubdivisions(): camera is Null or <<camera>>.  A view height of 0
\* makes the zoom factor Infinity, which Math.min caps.
calculateSubdivisions(camera) ==
    IF camera = Null THEN baseSubdivisions
    ELSE LET viewHeight == camera[1].top - camera[1].bottom
             cap == Fix(maxSubdivisions) \div baseSubdivisions
             zoomFactor == IF viewHeight = 0 THEN cap
                           ELSE Min(FDiv(Fix(defaultViewHeight), viewHeight), cap)
             subdivisions == RoundDiv(baseSubdivisions * zoomFactor, Scale)
         IN  Max(baseSubdivisions, Min(subdivisions, maxSubdivisions))

\* The attribute and index arrays of a geometry under construction.  Each
\* attribute holds one item per vertex (the source pushes the item's 3, 2 or
\* 1 numbers together); indices is the flat index array.
emptyBuffers ==
    [positions |-> <<>>, cp1Array |-> <<>>, cp2Array |-> <<>>, endArray |-> <<>>,
     segmentTArray |-> <<>>, isEndCapArray |-> <<>>, uvs |-> <<>>, indices |-> <<>>]

pushBodyVertex_noEndPoint(g, segment, t, side) ==
    [g EXCEPT !.positions = Append(@, segment.p0),
              !.cp1Array = Append(@, segment.p1),
              !.cp2Array = Append(@, segment.p2),
              !.segmentTArray = Append(@, t),
              !.isEndCapArray = Append(@, 0),
              !.uvs = Append(@, <<side, t>>)]

\* The pushes of one vertex of the stroke body.
pushBodyVertex(g, segment, t, side) ==
    [g EXCEPT !.positions = Append(@, segment.p0),
              !.cp1Array = Append(@, segment.p1),
              !.cp2Array = Append(@, segment.p2),
              !.endArray = Append(@, segment.p3),
              !.segmentTArray = Append(@, t),
              !.isEndCapArray = Append(@, 0),
              !.uvs = Append(@, <<side, t>>)]

\* The quad's two triangles: pushed for every step but the last of a segment.
quadGuard_everyStep(i, subdivisionsPerSegment) == TRUE

quadGuard(i, subdivisionsPerSegment) == i < subdivisionsPerSegment - 1

\* Two buffer sets, the second's pushes after the first's.
concatBuffers(g, h) ==
    [positions |-> g.positions \o h.positions,
     cp1Array |-> g.cp1Array \o h.cp1Array,
     cp2Array |-> g.cp2Array \o h.cp2Array,
     endArray |-> g.endArray \o h.endArray,
     segmentTArray |-> g.segmentTArray \o h.segmentTArray,
     isEndCapArray |-> g.isEndCapArray \o h.isEndCapArray,
     uvs |-> g.uvs \o h.uvs,
     indices |-> g.indices \o h.indices]

\* One pass of the body of "for (i = 0; i < subdivisionsPerSegment; i++)":
\* the two side vertices, then the quad's indices.
subdivisionStep(segment, i, subdivisionsPerSegment, vertexIndex) ==
    LET t == FDiv(i, subdivisionsPerSegment - 1)
        g2 == pushBodyVertex(pushBodyVertex(emptyBuffers, segment, t, 0), segment, t, 1)
        base == vertexIndex + i * 2
    IN  IF quadGuard(i, subdivisionsPerSegment)
        THEN [g2 EXCEPT !.indices = @ \o <<base, base + 1, base + 2,
                                            base + 1, base + 3, base + 2>>]
        ELSE g2

\* The pushes of the passes i = lo .. hi - 1 of that loop, in order.  The
\* passes only append, so the range is taken by halves (a shallow evaluation
\* of the same sequence of pushes).
RECURSIVE subdivisionLoop(_, _, _, _, _)
subdivisionLoop(segment, lo, hi, subdivisionsPerSegment, vertexIndex) ==
    IF hi <= lo THEN emptyBuffers
    ELSE IF hi = lo + 1
    THEN subdivisionStep(segment, lo, subdivisionsPerSegment, vertexIndex)
    ELSE LET mid == (lo + hi) \div 2
         IN  concatBuffers(
                 subdivisionLoop(segment, lo, mid, subdivisionsPerSegment, vertexIndex),
                 subdivisionLoop(segment, mid, hi, subdivisionsPerSegment, vertexIndex))

\* segments.forEach: each segment's vertices and indices, appended in order;
\* vertexIndex += subdivisionsPerSegment * 2 after each.
RECURSIVE segmentsLoop(_, _, _, _, _)
segmentsLoop(g, segments, s, subdivisionsPerSegment, vertexIndex) ==
    IF s > Len(segments) THEN [g |-> g, vertexIndex |-> vertexIndex]
    ELSE LET block == subdivisionLoop(segments[s], 0, subdivisionsPerSegment,
                                      subdivisionsPerSegment, vertexIndex)
             g2 == concatBuffers(g, block)
         IN  segmentsLoop(g2, segments, s + 1, subdivisionsPerSegment,
                          vertexIndex + subdivisionsPerSegment * 2)

\* The four corner pushes of a cap quad, i = 0..3.
RECURSIVE capCornerLoop(_, _, _)
capCornerLoop(g, capPosition, i) ==
    IF ~(i < 4) THEN g
    ELSE LET u == IF i = 1 \/ i = 2 THEN 1 ELSE 0
             v == IF i >= 2 THEN 1 ELSE 0
         IN  capCornerLoop(
                 [g EXCEPT !.positions = Append(@, capPosition),
                           !.cp1Array = Append(@, Vector3(0, 0, 0)),
                           !.cp2Array = Append(@, Vector3(0, 0, 0)),
                           !.endArray = Append(@, Vector3(0, 0, 0)),
                           !.segmentTArray = Append(@, 0),
                           !.isEndCapArray = Append(@, 1),
                           !.uvs = Append(@, <<u, v>>)],
                 capPosition, i + 1)

\* addEndCap(capPosition) on the state <<buffers, vertexIndex>>.
addEndCap_dropped(st, capPosition) == st

addEndCap(st, capPosition) ==
    IF capPosition = Null THEN st
    ELSE LET baseIndex == st.vertexIndex
             g2 == capCornerLoop(st.g, capPosition[1], 0)
         IN  [g |-> [g2 EXCEPT !.indices = @ \o <<baseIndex, baseIndex + 1, baseIndex + 2,
                                                    baseIndex, baseIndex + 2, baseIndex + 3>>],
              vertexIndex |-> st.vertexIndex + 4]

\* createChunkGeometry(segments, startCapPosition, endCapPosition, width):
\* the buffers of the new THREE.BufferGeometry.  camera is this.camera.
createChunkGeometry(segments, startCapPosition, endCapPosition, width, camera) ==
    LET subdivisionsPerSegment == calculateSubdivisions(camera)
        body == segmentsLoop(emptyBuffers, segments, 1, subdivisionsPerSegment, 0)
    IN  addEndCap(addEndCap(body, startCapPosition), endCapPosition).g

\* What the checks read of a geometry's buffers: the count of each
\* attribute, the index count, and the cap vertices (those flagged
\* isEndCap = 1) in buffer order.
geometryFacts(g) ==
    [counts |-> [k \in DOMAIN g \ {"indices"} |-> Len(g[k])],
     indexCount |-> Len(g.indices),
     capVertices |-> SelectSeq([k \in 1..Len(g.positions) |->
                                   [position |-> g.positions[k],
                                    isEndCap |-> g.isEndCapArray[k],
                                    uv |-> g.uvs[k]]],
                               LAMBDA v : v.isEndCap = 1)]

\* The vertex the shader gets for index k (0-based) of the attribute arrays:
\* what setAttribute hands to it, item by item.
vertexAt(g, k) ==
    [position |-> g.positions[k + 1], controlPoint1 |-> g.cp1Array[k + 1],
     controlPoint2 |-> g.cp2Array[k + 1], endPoint |-> g.endArray[k + 1],
     isEndCap |-> g.isEndCapArray[k + 1]]

\* The vertex index k (0-based) names, Null when an attribute array has no
\* item for it.
vertexOrNull(g, k) ==
    IF k >= 0 /\ k < Len(g.positions) /\ k < Len(g.cp1Array) /\ k < Len(g.cp2Array)
           /\ k < Len(g.endArray) /\ k < Len(g.isEndCapArray)
    THEN Some(vertexAt(g, k)) ELSE Null

\* What the checks read of the buffers handed to setAttribute and setIndex:
\* the indices outside the position array, the flags used, the flagged
\* vertices (0-based), the number of whole triangles of the index buffer
\* and, for each, the set of vertices it references.
bufferFacts(g) ==
    [strayIndices |-> {g.indices[j] : j \in {i \in 1..Len(g.indices) :
                           g.indices[i] < 0 \/ g.indices[i] >= Len(g.positions)}},
     flags |-> {g.isEndCapArray[k] : k \in 1..Len(g.isEndCapArray)},
     flagged |-> {k \in 0..(Len(g.isEndCapArray) - 1) : g.isEndCapArray[k + 1] = 1},
     looseIndices |-> Len(g.indices) % 3,
     triangles |-> {{vertexOrNull(g, g.indices[3 * t + c]) : c \in 1..3} :
                        t \in 0..((Len(g.indices) \div 3) - 1)}]

\* ------------------------------------------------------------------------
\* StrokeRenderer: smoothing and the pixel filter
\* ------------------------------------------------------------------------

\* this.smoothingWindowSize
smoothingWindowSize == 3

\* this.enableSmoothing: set in the constructor, never changed.
enableSmoothing == TRUE

\* this.minPixelDistance
minPixelDistance == 2

\* this.previewLineWidth = 0.01
previewLineWidth == Scale \div 100

\* renderer.domElement: the canvas, in device pixels.
canvas == [width |-> 1024, height |-> 768]

\* i === 0 || i === points.length - 1: the points smoothing keeps exactly.
isEndpoint_firstOnly(i, n) == i = 0

isEndpoint(i, n) == i = 0 \/ i = n - 1

\* for (j = start; j <= end; j++) sum += points[j]
RECURSIVE windowSum(_, _, _, _)
windowSum(points, j, end, sum) ==
    IF ~(j <= end) THEN sum
    ELSE windowSum(points, j + 1, end,
                   Vector3(sum.x + points[j + 1].x, sum.y + points[j + 1].y,
                           sum.z + points[j + 1].z))

smoothedPoint_trailingWindow(points, i) ==
    IF isEndpoint(i, Len(points)) THEN points[i + 1]
    ELSE LET halfWindow == smoothingWindowSize \div 2
             start == Max(0, i - halfWindow)
             end == i
             sum == windowSum(points, start, end, Vector3(0, 0, 0))
             count == end - start + 1
         IN  Vector3(RoundDiv(sum.x, count), RoundDiv(sum.y, count),
                     RoundDiv(sum.z, count))

\* One pass of the loop of smoothPoints: the point pushed for index i.
smoothedPoint(points, i) ==
    IF isEndpoint(i, Len(points)) THEN points[i + 1]
    ELSE LET halfWindow == smoothingWindowSize \div 2
             start == Max(0, i - halfWindow)
             end == Min(Len(points) - 1, i + halfWindow)
             sum == windowSum(points, start, end, Vector3(0, 0, 0))
             count == end - start + 1
         IN  Vector3(RoundDiv(sum.x, count), RoundDiv(sum.y, count),
                     RoundDiv(sum.z, count))

\* StrokeRenderer.smoothPoints(points)
smoothPoints(points) ==
    IF ~enableSmoothing \/ Len(points) < 3 THEN points
    ELSE Strict([k \in 1..Len(points) |-> smoothedPoint(points, k - 1)])

\* StrokeRenderer.worldToScreen(point): the point projected by the
\* orthographic camera, then mapped to canvas pixels (fixed-point pixels).
worldToScreen(point, camera) ==
    LET ndcX == FDiv(2 * (point.x - camera.position.x) - (camera.right + camera.left),
                     camera.right - camera.left)
        ndcY == FDiv(2 * (point.y - camera.position.y) - (camera.top + camera.bottom),
                     camera.top - camera.bottom)
    IN  [x |-> RoundDiv((ndcX + Scale) * canvas.width, 2),
         y |-> RoundDiv(((0 - ndcY) + Scale) * canvas.height, 2)]

\* Math.sqrt(dx * dx + dy * dy) >= d for fixed-point dx, dy and d > 0.  A
\* side that alone reaches d settles it, which keeps the squares small.
distanceAtLeast(dx, dy, d) ==
    \/ Abs(dx) >= d
    \/ Abs(dy) >= d
    \/ dx * dx + dy * dy >= d * d

pixelFilterKeeps_strictlyFarther(screenPos, lastScreenPosition) ==
    LET dx == screenPos.x - lastScreenPosition.x
        dy == screenPos.y - lastScreenPosition.y
    IN  dx * dx + dy * dy > Fix(minPixelDistance) * Fix(minPixelDistance)

\* pixelDistance >= this.minPixelDistance
pixelFilterKeeps(screenPos, lastScreenPosition) ==
    distanceAtLeast(screenPos.x - lastScreenPosition.x,
                    screenPos.y - lastScreenPosition.y, Fix(minPixelDistance))

\* What updateLineGeometry leaves in currentLine.geometry: the points the
\* ribbon runs through and the sizes of its buffers (a 9-vertex dot for one
\* point, two vertices per point and a quad per gap otherwise).
lineGeometry(allPoints) ==
    [through |-> allPoints,
     positionCount |-> IF Len(allPoints) = 1 THEN 9 ELSE 2 * Len(allPoints),
     indexCount |-> IF Len(allPoints) = 1 THEN 21 ELSE 6 * (Len(allPoints) - 1)]

\* updateLineGeometry(): nothing without a line or without points.
updateLineGeometry(currentLine, allPoints) ==
    IF currentLine = Null \/ Len(allPoints) < 1 THEN currentLine
    ELSE Some([currentLine[1] EXCEPT !.geometry = lineGeometry(allPoints)])

\* A preview cap mesh of createEndCaps: its material is its own clone (named
\* by the cap's id), its geometry the one CircleGeometry both caps share
\* (named by the start cap's id).
previewCap(id, geometry, allPoints, k) ==
    [id |-> id, renderOrder |-> 999, geometry |-> geometry,
     position |-> IF Len(allPoints) > 0 THEN allPoints[k] ELSE Vector3(0, 0, 0)]

\* updateEndCaps(): the caps follow the first and the last sample.
updateEndCaps(cap, allPoints, k) ==
    IF cap = Null \/ Len(allPoints) = 0 THEN cap
    ELSE Some([cap[1] EXCEPT !.position = allPoints[k]])

\* endStroke: the last sample is pushed unless it equals the last kept point.
needsLastPoint_never(bezierPoints, lastPoint) == FALSE

needsLastPoint(bezierPoints, lastPoint) ==
    Len(bezierPoints) = 0 \/ lastPoint # bezierPoints[Len(bezierPoints)]

\* The list endStroke returns for the kept points and the samples.
endStrokePoints(bezierPoints, allPoints) ==
    LET withLast ==
            IF Len(allPoints) > 0
               /\ needsLastPoint(bezierPoints, allPoints[Len(allPoints)])
            THEN Append(bezierPoints, allPoints[Len(allPoints)])
            ELSE bezierPoints
    IN  smoothPoints(withLast)

\* ------------------------------------------------------------------------
\* WhiteboardDemo: the density filter and the shared z-index counter
\* ------------------------------------------------------------------------

\* The threshold onDrawEnd passes: filterDensePoints(points, 0.005).
filterMinDistance == (5 * Scale) \div 1000

\* lastKept.distanceTo(points[i]) >= minDistance
farEnough(a, b, minDistance) ==
    \/ Abs(a.x - b.x) >= minDistance
    \/ Abs(a.y - b.y) >= minDistance
    \/ Abs(a.z - b.z) >= minDistance
    \/ (a.x - b.x) * (a.x - b.x) + (a.y - b.y) * (a.y - b.y)
           + (a.z - b.z) * (a.z - b.z) >= minDistance * minDistance

\* for (i = 1; i < points.length - 1; i++) of filterDensePoints
RECURSIVE filterLoop(_, _, _, _)
filterLoop(points, i, filtered, minDistance) ==
    IF ~(i < Len(points) - 1) THEN filtered
    ELSE filterLoop(points, i + 1,
                    IF farEnough(filtered[Len(filtered)], points[i + 1], minDistance)
                    THEN Append(filtered, points[i + 1])
                    ELSE filtered,
                    minDistance)

\* WhiteboardDemo.filterDensePoints(points, minDistance)
filterDensePoints(points, minDistance) ==
    IF Len(points) < 2 THEN points
    ELSE Append(filterLoop(points, 1, <<points[1]>>, minDistance),
                points[Len(points)])

\* getNextZIndex = () => this.globalZIndex++
getNextZIndex_noIncrement(z) == [value |-> z, next |-> z]

getNextZIndex(z) == [value |-> z, next |-> z + 1]

\* ------------------------------------------------------------------------
\* ChunkedBezierStrokeManager: strokes
\* ------------------------------------------------------------------------

\* What a call left behind, by name.
Disposed(kind, id) == [kind |-> kind, of |-> id]

\* A resource as `allocated` records it: made for the object `owner` of the
\* given type ("stroke", or "preview" for the live preview, whose id is 0).
Allocated(type, owner, kind, id) ==
    [type |-> type, owner |-> owner, res |-> Disposed(kind, id)]

\* The dispose() calls of a list of resources, one call per member.
RECURSIVE disposeCalls(_)
disposeCalls(resources) ==
    IF resources = <<>> THEN EmptyBag
    ELSE SetToBag({Head(resources)}) (+) disposeCalls(Tail(resources))

\* UIController.penWidth = 0.01 and penColor
penWidth == Scale \div 100

penColor == "0x000000"

\* if (points.length < 4) return null
tooFewPoints_three(points) == Len(points) < 3

tooFewPoints(points) == Len(points) < 4

\* createStrokeMaterial(color, width)
createStrokeMaterial(color, width, id) ==
    [id |-> id, strokeColor |-> color, strokeWidth |-> width]

\* createChunkMesh(segments, material, startCapPosition, endCapPosition,
\* width): a fresh, unattached mesh.  Its geometry is kept as geometryFacts.
createChunkMesh(segments, material, startCapPosition, endCapPosition, width, camera, id) ==
    [id |-> id,
     geometry |-> geometryFacts(createChunkGeometry(segments, startCapPosition,
                                                    endCapPosition, width, camera)),
     material |-> material,
     frustumCulled |-> FALSE,
     renderOrder |-> 0,
     visible |-> TRUE]

\* includeStartCap = index === 0; includeEndCap = index === chunks.length - 1
includeStartCap(index) == index = 0

includeEndCap_always(index, chunks) == TRUE

includeEndCap(index, chunks) == index = Len(chunks) - 1

\* The body of chunks.forEach of createStroke for the chunk `index` whose
\* fit gave chunkSegments; st carries the stroke's meshes and segmentCount
\* and the next free id.
createStrokeChunk(st, chunkSegments, chunks, index, points, material, width, camera) ==
    IF Len(chunkSegments) > 0
    THEN [meshes |-> Append(st.meshes,
                        createChunkMesh(chunkSegments, material,
                            IF includeStartCap(index) THEN Some(points[1]) ELSE Null,
                            IF includeEndCap(index, chunks)
                            THEN Some(points[Len(points)]) ELSE Null,
                            width, camera, st.nextId)),
          segmentCount |-> st.segmentCount + Len(chunkSegments),
          nextId |-> st.nextId + 1]
    ELSE st

\* chunks.forEach of createStroke, from chunk `index` on.
RECURSIVE createStrokeChunks(_, _, _, _, _, _, _)
createStrokeChunks(st, chunks, index, points, material, width, camera) ==
    IF ~(index < Len(chunks)) THEN st
    ELSE createStrokeChunks(
             createStrokeChunk(st, createSegment(chunks[index + 1].points),
                               chunks, index, points, material, width, camera),
             chunks, index + 1, points, material, width, camera)

\* chunks.forEach of createStroke, from chunk `index` on, createSegment
\* returning [] for the chunks whose index is in `failed`.
RECURSIVE createStrokeChunksOn(_, _, _, _, _, _, _, _)
createStrokeChunksOn(st, chunks, index, points, material, width, camera, failed) ==
    IF ~(index < Len(chunks)) THEN st
    ELSE createStrokeChunksOn(
             createStrokeChunk(st,
                               IF index \in failed THEN <<>>
                               ELSE createSegment(chunks[index + 1].points),
                               chunks, index, points, material, width, camera),
             chunks, index + 1, points, material, width, camera, failed)

\* addDebugPoints(stroke): the first pass of stroke.points.forEach reads the
\* undeclared name zIndex and throws a ReferenceError before its sphere is
\* attached or recorded.
addDebugPoints(stroke) ==
    [threw |-> Len(stroke.points) > 0, stroke |-> stroke]

\* setDebugMode(stroke, enabled): whether the call throws.  debugPoints is
\* empty for every stroke, so removeDebugPoints is never reached.
setDebugMode(stroke, enabled) ==
    IF enabled /\ Len(stroke.debugPoints) = 0 THEN addDebugPoints(stroke)
    ELSE [threw |-> FALSE, stroke |-> stroke]

\* createStroke after chunks.forEach, built being what the loop left: the
\* stroke object is completed, then addDebugPoints runs in debug mode.  The
\* stroke has no zIndex yet (0 stands for the missing field).
completedStroke(built, points, options, firstId) ==
    LET stroke == [id |-> firstId,
                   type |-> "stroke",
                   points |-> points,
                   chunks |-> <<>>,
                   meshes |-> built.meshes,
                   segmentCount |-> built.segmentCount,
                   isComplete |-> TRUE,
                   width |-> options.width,
                   color |-> options.color,
                   debugPoints |-> <<>>,
                   material |-> firstId + 1,
                   zIndex |-> 0]
    IN  [kind |-> IF options.debugMode /\ addDebugPoints(stroke).threw
                  THEN "threw" ELSE "stroke",
         stroke |-> Some(stroke),
         attached |-> {built.meshes[k].id : k \in 1..Len(built.meshes)},
         nextId |-> built.nextId]

\* ChunkedBezierStrokeManager.createStroke(points, options): kind is "null"
\* (too few points), "stroke" (the stroke is returned) or "threw"
\* (addDebugPoints threw after the meshes were attached); attached are the
\* meshes given to parent.add.
chunkedCreateStroke(points, options, camera, firstId) ==
    IF tooFewPoints(points)
    THEN [kind |-> "null", stroke |-> Null, attached |-> {}, nextId |-> firstId]
    ELSE completedStroke(
             createStrokeChunks(
                 [meshes |-> <<>>, segmentCount |-> 0, nextId |-> firstId + 2],
                 createChunks(points), 0, points,
                 createStrokeMaterial(options.color, options.width, firstId + 1).id,
                 options.width, camera),
             points, options, firstId)

\* ChunkedBezierStrokeManager.deleteStroke(stroke): the stroke afterwards.
chunkedDeleteStroke(stroke) ==
    [stroke EXCEPT !.meshes = <<>>, !.isComplete = FALSE]

\* The resources deleteStroke disposes: every mesh geometry, the material.
chunkedDeleteDisposes(stroke) ==
    disposeCalls([k \in 1..Len(stroke.meshes) |->
                     Disposed("geometry", stroke.meshes[k].id)])
        (+) disposeCalls(<<Disposed("material", stroke.material)>>)

getStats_oneSegmentPerPair(stroke) ==
    [totalPoints |-> Len(stroke.points),
     chunkCount |-> Len(stroke.meshes),
     totalSegments |-> Len(stroke.points) - 1]

\* getStats(stroke): the counts (the averages divide them).
getStats(stroke) ==
    [totalPoints |-> Len(stroke.points),
     chunkCount |-> Len(stroke.meshes),
     totalSegments |-> stroke.segmentCount]

\* ------------------------------------------------------------------------
\* StrokeManager and ImageManager
\* ------------------------------------------------------------------------

\* updateStrokeRenderOrder(stroke)
updateStrokeRenderOrder(stroke) ==
    [stroke EXCEPT !.meshes =
        Strict([k \in 1..Len(stroke.meshes) |->
                   [stroke.meshes[k] EXCEPT !.renderOrder = stroke.zIndex]])]

\* StrokeManager.bringToFront(stroke) with the counter's value z
strokeBringToFront(stroke, z) ==
    updateStrokeRenderOrder([stroke EXCEPT !.zIndex = z])

\* ImageManager.bringToFront(image) with the counter's value z
imageBringToFront(image, z) ==
    [image EXCEPT !.zIndex = z, !.mesh.renderOrder = z]

\* The body of chunks.forEach of updateStrokeGeometry for the chunk `index`
\* whose fit gave chunkSegments.
updateGeometryChunk(st, chunkSegments, chunks, index, stroke, camera) ==
    IF Len(chunkSegments) > 0
    THEN [meshes |-> Append(st.meshes,
                        createChunkMesh(chunkSegments, stroke.material,
                            IF includeStartCap(index) THEN Some(stroke.points[1]) ELSE Null,
                            IF includeEndCap(index, chunks)
                            THEN Some(stroke.points[Len(stroke.points)]) ELSE Null,
                            stroke.width, camera, st.nextId)),
          nextId |-> st.nextId + 1]
    ELSE st

\* chunks.forEach of updateStrokeGeometry, from chunk `index` on.
RECURSIVE updateGeometryChunks(_, _, _, _, _)
updateGeometryChunks(st, chunks, index, stroke, camera) ==
    IF ~(index < Len(chunks)) THEN st
    ELSE updateGeometryChunks(
             updateGeometryChunk(st, createSegment(chunks[index + 1].points),
                                 chunks, index, stroke, camera),
             chunks, index + 1, stroke, camera)

rebuiltStroke_oldGeometryKept(stroke, built) ==
    [stroke |-> updateStrokeRenderOrder([stroke EXCEPT !.meshes = built.meshes]),
     removed |-> {stroke.meshes[k].id : k \in 1..Len(stroke.meshes)},
     disposes |-> EmptyBag,
     attached |-> {built.meshes[k].id : k \in 1..Len(built.meshes)},
     nextId |-> built.nextId]

\* updateStrokeGeometry after chunks.forEach, built being what the loop
\* left: the new meshes replace the old, then updateStrokeRenderOrder.
rebuiltStroke(stroke, built) ==
    [stroke |-> updateStrokeRenderOrder([stroke EXCEPT !.meshes = built.meshes]),
     removed |-> {stroke.meshes[k].id : k \in 1..Len(stroke.meshes)},
     disposes |-> disposeCalls([k \in 1..Len(stroke.meshes) |->
                                   Disposed("geometry", stroke.meshes[k].id)]),
     attached |-> {built.meshes[k].id : k \in 1..Len(built.meshes)},
     nextId |-> built.nextId]

\* StrokeManager.updateStrokeGeometry(stroke): the stroke afterwards, the old
\* meshes it removed from their parent and disposed, the new meshes it
\* attached, and the next free id.
updateStrokeGeometry(stroke, camera, firstId) ==
    rebuiltStroke(stroke,
                  updateGeometryChunks([meshes |-> <<>>, nextId |-> firstId],
                                       createChunks(stroke.points), 0, stroke, camera))

\* ImageManager.createImageMesh(texture, position): the image object.  The
\* plane, the texture and the corner points of an image are not modelled.
createImageMesh(position, z, firstId) ==
    [id |-> firstId + 1,
     type |-> "image",
     mesh |-> [id |-> firstId, position |-> position, renderOrder |-> z],
     position |-> position,
     zIndex |-> z]

\* The resources deleteImage disposes.
deleteImageDisposes(image) ==
    disposeCalls(<<Disposed("geometry", image.mesh.id),
                   Disposed("material", image.mesh.id),
                   Disposed("texture", image.mesh.id)>>)

\* ------------------------------------------------------------------------
\* SelectionManager and TransformManager
\* ------------------------------------------------------------------------

\* A reference to a stroke or an image object.
Ref(obj) == [type |-> obj.type, id |-> obj.id]

\* Every object of the two stores, by reference.
storedRefs(strokeList, imageList) ==
    {Ref(strokeList[k]) : k \in 1..Len(strokeList)}
        \cup {Ref(imageList[k]) : k \in 1..Len(imageList)}

\* Whether the reference names an object still in its store.
isStored(ref, strokeList, imageList) == ref \in storedRefs(strokeList, imageList)

\* The object a reference names.
objectOf(ref, strokeList, imageList) ==
    IF ref.type = "image"
    THEN imageList[CHOOSE k \in 1..Len(imageList) : imageList[k].id = ref.id]
    ELSE strokeList[CHOOSE k \in 1..Len(strokeList) : strokeList[k].id = ref.id]

\* The list with the object of that id replaced.
replaceObject(list, obj) ==
    Strict([k \in 1..Len(list) |-> IF list[k].id = obj.id THEN obj ELSE list[k]])

\* objects.slice().sort((a, b) => (a.zIndex || 0) - (b.zIndex || 0)): a
\* stable sort, one object inserted at a time.
RECURSIVE sortByZIndex(_, _)
sortByZIndex(objects, sorted) ==
    IF objects = <<>> THEN sorted
    ELSE LET o == Head(objects)
         IN  sortByZIndex(Tail(objects),
                 SelectSeq(sorted, LAMBDA s : s.zIndex <= o.zIndex)
                     \o <<o>>
                     \o SelectSeq(sorted, LAMBDA s : s.zIndex > o.zIndex))

\* sortedObjects.forEach of bringGroupToFront; st carries the two stores
\* and the counter.
RECURSIVE bringEachToFront(_, _)
bringEachToFront(sortedObjects, st) ==
    IF sortedObjects = <<>> THEN st
    ELSE LET obj == Head(sortedObjects)
             z == getNextZIndex(st.globalZIndex)
         IN  bringEachToFront(Tail(sortedObjects),
                 IF obj.type = "image"
                 THEN [st EXCEPT !.images = replaceObject(@, imageBringToFront(obj, z.value)),
                                 !.globalZIndex = z.next]
                 ELSE [st EXCEPT !.strokes = replaceObject(@, strokeBringToFront(obj, z.value)),
                                 !.globalZIndex = z.next])

\* TransformManager.bringGroupToFront(objects)
bringGroupToFront(objects, st) ==
    IF Len(objects) = 0 THEN st
    ELSE bringEachToFront(sortByZIndex(objects, <<>>), st)

\* The selected objects, as the stores hold them now.
selectedObjects(selection, strokeList, imageList) ==
    Strict([k \in 1..Len(selection) |-> objectOf(selection[k], strokeList, imageList)])

\* The strokes (not images) of a list of objects.
onlyStrokes(objects) == SelectSeq(objects, LAMBDA o : o.type # "image")

\* The ids of the meshes of a list of strokes, in order.
RECURSIVE meshIdsOf(_)
meshIdsOf(strokeObjects) ==
    IF strokeObjects = <<>> THEN <<>>
    ELSE [k \in 1..Len(Head(strokeObjects).meshes) |-> Head(strokeObjects).meshes[k].id]
             \o meshIdsOf(Tail(strokeObjects))

\* The visibility of every mesh of a list of strokes, in order.
RECURSIVE meshVisibilityOf(_)
meshVisibilityOf(strokeObjects) ==
    IF strokeObjects = <<>> THEN <<>>
    ELSE [k \in 1..Len(Head(strokeObjects).meshes) |->
              [mesh |-> Head(strokeObjects).meshes[k].id,
               originalVisible |-> Head(strokeObjects).meshes[k].visible]]
             \o meshVisibilityOf(Tail(strokeObjects))

\* mesh.visible set on the meshes named in `shown` (mesh id -> visible).
setVisibility(strokeList, shown) ==
    Strict([k \in 1..Len(strokeList) |->
        [strokeList[k] EXCEPT !.meshes =
            Strict([m \in 1..Len(strokeList[k].meshes) |->
                LET mesh == strokeList[k].meshes[m]
                IN  IF mesh.id \in DOMAIN shown
                    THEN [mesh EXCEPT !.visible = shown[mesh.id]]
                    ELSE mesh])]])

\* createPreviewLines(strokes): one preview entry per stroke (a line and two
\* caps, three scene objects from firstId on).
createPreviewLines(strokeObjects, firstId) ==
    Strict([k \in 1..Len(strokeObjects) |->
        LET stroke == strokeObjects[k]
            base == firstId + 3 * (k - 1)
        IN  [line |-> [id |-> base, renderOrder |-> 999,
                       geometry |-> lineGeometry(stroke.points)],
             stroke |-> Ref(stroke),
             startCap |-> [id |-> base + 1, renderOrder |-> 999,
                           position |-> stroke.points[1]],
             endCap |-> [id |-> base + 2, renderOrder |-> 999,
                         position |-> stroke.points[Len(stroke.points)]]]])

\* The scene objects of the preview entries.
previewObjects(lines) ==
    UNION {{lines[k].line.id, lines[k].startCap.id, lines[k].endCap.id} :
               k \in 1..Len(lines)}

\* updatePreviewLines(offset): every preview follows its stroke's points.
updatePreviewLines(lines, strokeList, imageList) ==
    Strict([k \in 1..Len(lines) |->
        IF ~isStored(lines[k].stroke, strokeList, imageList) THEN lines[k]
        ELSE LET stroke == objectOf(lines[k].stroke, strokeList, imageList)
             IN  [lines[k] EXCEPT
                     !.line.geometry = lineGeometry(stroke.points),
                     !.startCap.position = stroke.points[1],
                     !.endCap.position = stroke.points[Len(stroke.points)]]])

draggedPoints_fromCurrent(current, original, offset) ==
    Strict([k \in 1..Len(original) |->
        Vector3(current[k].x + offset.x, current[k].y + offset.y, current[k].z)])

\* The offset of a stroke's points in updateDrag: x and y move, z stays.
draggedPoints(current, original, offset) ==
    Strict([k \in 1..Len(original) |->
        Vector3(original[k].x + offset.x, original[k].y + offset.y, current[k].z)])

\* strokeOriginalPoints.forEach of updateDrag; st carries the two stores.
RECURSIVE dragEach(_, _, _)
dragEach(originals, offset, st) ==
    IF originals = <<>> THEN st
    ELSE LET entry == Head(originals)
         IN  dragEach(Tail(originals), offset,
                 IF ~isStored(entry.stroke, st.strokes, st.images) THEN st
                 ELSE LET obj == objectOf(entry.stroke, st.strokes, st.images)
                      IN  IF obj.type = "image"
                          THEN [st EXCEPT !.images = replaceObject(@,
                                   [obj EXCEPT !.mesh.position =
                                       Vector3(entry.originalPosition[1].x + offset.x,
                                               entry.originalPosition[1].y + offset.y,
                                               obj.mesh.position.z)])]
                          ELSE [st EXCEPT !.strokes = replaceObject(@,
                                   [obj EXCEPT !.points =
                                       draggedPoints(obj.points, entry.points, offset)])])

\* What one updateStrokeGeometry call (outcome r) does to st: the stroke
\* store, the whiteboard's children, the dispose() calls, the resources
\* made (one geometry per new mesh), the next id.
applyRebuild(st, r) ==
    [strokes |-> replaceObject(st.strokes, r.stroke),
     whiteboard |-> (st.whiteboard \ r.removed) \cup r.attached,
     disposed |-> st.disposed (+) r.disposes,
     allocated |-> st.allocated
                       \cup {Allocated("stroke", r.stroke.id, "geometry", id) : id \in r.attached},
     nextId |-> r.nextId]

\* selectedStrokes.forEach of stopDragging.
RECURSIVE rebuildEach(_, _, _)
rebuildEach(objects, camera, st) ==
    IF objects = <<>> THEN st
    ELSE rebuildEach(Tail(objects), camera,
             IF Head(objects).type = "image" THEN st
             ELSE applyRebuild(st,
                      updateStrokeGeometry(
                          objectOf(Ref(Head(objects)), st.strokes, <<>>),
                          camera, st.nextId)))

\* ------------------------------------------------------------------------
\* The state of a part of the program that a specification leaves alone
\* ------------------------------------------------------------------------

IdleChunks == chkPoints = <<>> /\ chkChunks = <<>> /\ chkDone = FALSE

IdleFit == fitPoints = <<>> /\ fitSegments = <<>> /\ fitDone = FALSE

IdleRecover == recC = Null /\ recInverse = Null /\ recFailed = {}

IdleLoop == loopStartIdx = 0 /\ loopIterations = 0

IdleSubdiv == subCount = Null /\ subPrev = Null

IdleStats == stats = Null

IdleApi == apiArgs = <<>> /\ apiCreated = 0 /\ apiDeleted = 0

IdleTransform == isScaling = FALSE /\ scaleHandle = Null /\ scaleStartPoint = Null /\ scaleStartBounds = Null /\ strokesOriginalPointsForScale = Null /\ currentFlipX = FALSE /\ currentFlipY = FALSE /\ pointer = Null /\ atStart = <<>>

IdleRibbon == ribbonSource = "none" /\ ribbonPoints = <<>> /\ ribbonHalfWidth = 0 /\ ribbonPositions = <<>>

IdleVR == vrActive = FALSE /\ vrLoop = "none" /\ vrPhase = "none" /\ vrDebugMode = FALSE /\ pen = Null /\ penTouching = FALSE /\ dm = Null /\ vrOpen = FALSE /\ vrDrawEnds = 0 /\ vrStrokes = 0 /\ vrLast = "none"

IdleInput == imIsDrawing = FALSE /\ imIsPanning = FALSE /\ imDrawingEnabled = TRUE /\ imCalls = <<>> /\ imOpen = 0 /\ imLast = "none"

IdleLater == IdleLoop /\ IdleSubdiv /\ IdleStats /\ IdleApi /\ IdleTransform /\ IdleRibbon /\ IdleVR /\ IdleInput

IdleButLoop == IdleSubdiv /\ IdleStats /\ IdleApi /\ IdleTransform /\ IdleRibbon /\ IdleVR /\ IdleInput
IdleButSubdiv == IdleLoop /\ IdleStats /\ IdleApi /\ IdleTransform /\ IdleRibbon /\ IdleVR /\ IdleInput
IdleButStats == IdleLoop /\ IdleSubdiv /\ IdleApi /\ IdleTransform /\ IdleRibbon /\ IdleVR /\ IdleInput
IdleButApi == IdleLoop /\ IdleSubdiv /\ IdleStats /\ IdleTransform /\ IdleRibbon /\ IdleVR /\ IdleInput
IdleButTransform == IdleLoop /\ IdleSubdiv /\ IdleStats /\ IdleApi /\ IdleRibbon /\ IdleVR /\ IdleInput
IdleButRibbon == IdleLoop /\ IdleSubdiv /\ IdleStats /\ IdleApi /\ IdleTransform /\ IdleVR /\ IdleInput
IdleButVR == IdleLoop /\ IdleSubdiv /\ IdleStats /\ IdleApi /\ IdleTransform /\ IdleRibbon /\ IdleInput
IdleButInput == IdleLoop /\ IdleSubdiv /\ IdleStats /\ IdleApi /\ IdleTransform /\ IdleRibbon /\ IdleVR

IdleGeom ==
    /\ geoSegments = <<>> /\ geoStartCap = Null /\ geoEndCap = Null
    /\ geoCamera = Null /\ geoFacts = Null /\ geoBuffers = Null /\ geoDone = FALSE

IdleSmooth ==
    smPoints = <<>> /\ smSmoothed = <<>> /\ smDone = FALSE /\ smTwice = Null

\* The last handler and what it did with createStroke.
Call(handler, result, nPoints, threw) ==
    [handler |-> handler, createStroke |-> result, nPoints |-> nPoints, threw |-> threw]

\* StrokeRenderer after its constructor.
InitLive ==
    /\ srCurrentLine = Null /\ srStartCap = Null /\ srEndCap = Null
    /\ srPoints = <<>> /\ srAllPoints = <<>> /\ srLastScreenPosition = Null
    /\ samples = <<>> /\ drawn = Null /\ simplified = Null

\* WhiteboardDemo after init(): empty stores, the counter at 0, the desktop
\* camera at its default view.
InitStore ==
    /\ globalZIndex = 0
    /\ strokes = <<>> /\ images = <<>> /\ selectedStrokes = <<>>
    /\ whiteboard = {} /\ scene = {} /\ disposed = EmptyBag
    /\ allocated = {} /\ held = <<>>
    /\ nextId = 1
    /\ debugMode = FALSE
    /\ sceneCamera = Some(Camera(Fix(defaultViewHeight)))
    /\ isDragging = FALSE /\ dragStartPoint = Null /\ strokeOriginalPoints = Null
    /\ previewLines = <<>> /\ originalStrokesVisibility = <<>>
    /\ call = Call("init", "none", 0, FALSE)
    /\ rebuilt = {}

\* ------------------------------------------------------------------------
\* Specification SpecChunks: createChunks on a bounded family of lists
\* ------------------------------------------------------------------------

InitChunks ==
    /\ \E n \in 0..MaxChunkLen, step \in 1..2, z \in 0..1 :
           chkPoints = LinePoints(n, step, z)
    /\ chkChunks = <<>>
    /\ chkDone = FALSE
    /\ IdleFit /\ IdleGeom /\ IdleSmooth /\ InitLive /\ InitStore /\ IdleRecover /\ IdleLater

RunCreateChunks ==
    /\ ~chkDone
    /\ chkChunks' = createChunks(chkPoints)
    /\ chkDone' = TRUE
    /\ UNCHANGED <<chkPoints, fitVars, geomVars, smoothVars, liveVars, storeVars, recoverVars, laterVars>>

NextChunks == RunCreateChunks

SpecChunks == InitChunks /\ [][NextChunks]_vars

\* ------------------------------------------------------------------------
\* Specification SpecFit: createSegment on a bounded family of lists
\* ------------------------------------------------------------------------

\* n points; a, b and c shape the list: a = b = 0 makes all points coincide
\* in x and y, c = 1 cycles z through three depths.
FitPoints(n, a, b, c) ==
    [i \in 1..n |-> Vector3(a * i * 100, ((i * b) % 3) * 100, (i * c) % 3)]

InitFit ==
    /\ \E n \in 0..MaxFitLen, a \in 0..1, b \in 0..2, c \in 0..1 :
           fitPoints = FitPoints(n, a, b, c)
    /\ fitSegments = <<>>
    /\ fitDone = FALSE
    /\ IdleChunks /\ IdleGeom /\ IdleSmooth /\ InitLive /\ InitStore /\ IdleRecover /\ IdleLater

RunCreateSegment ==
    /\ ~fitDone
    /\ fitSegments' = createSegment(fitPoints)
    /\ fitDone' = TRUE
    /\ UNCHANGED <<fitPoints, chunkVars, geomVars, smoothVars, liveVars, storeVars, recoverVars, laterVars>>

NextFit == RunCreateSegment

SpecFit == InitFit /\ [][NextFit]_vars

\* ------------------------------------------------------------------------
\* Specification SpecGeom: createChunkGeometry on bounded chunks
\* ------------------------------------------------------------------------

\* The cameras drawn: zoomed out, default zoom, 1.5x, 2x, 10x, 30x.
GeomCameras ==
    { Some(Camera(Fix(6))), Some(Camera(Fix(3))), Some(Camera(Fix(2))),
      Some(Camera(Fix(3) \div 2)), Some(Camera(Fix(3) \div 10)),
      Some(Camera(Fix(1) \div 10)) }

InitGeom ==
    /\ \E n \in 4..MaxGeomLen, b \in 1..2, c \in 0..1 :
          LET points == FitPoints(n, 1, b, c)
          IN  /\ geoSegments = createSegment(points)
              /\ geoStartCap \in {Null, Some(points[1])}
              /\ geoEndCap \in {Null, Some(points[n])}
    /\ geoCamera \in GeomCameras \cup {Null}
    /\ geoFacts = Null
    /\ geoBuffers = Null
    /\ geoDone = FALSE
    /\ IdleChunks /\ IdleFit /\ IdleSmooth /\ InitLive /\ InitStore /\ IdleRecover /\ IdleLater

RunCreateChunkGeometry ==
    /\ ~geoDone
    /\ LET geometry == createChunkGeometry(geoSegments, geoStartCap, geoEndCap, 1,
                                            geoCamera)
       IN  /\ geoFacts' = Some(geometryFacts(geometry))
           /\ geoBuffers' = Some(bufferFacts(geometry))
    /\ geoDone' = TRUE
    /\ UNCHANGED <<geoSegments, geoStartCap, geoEndCap, geoCamera, chunkVars, fitVars,
                   smoothVars, liveVars, storeVars, recoverVars, laterVars>>

NextGeom == RunCreateChunkGeometry

SpecGeom == InitGeom /\ [][NextGeom]_vars

\* ------------------------------------------------------------------------
\* Specification SpecSmooth: smoothPoints on every short list
\* ------------------------------------------------------------------------

\* The points the lists are drawn from: two share x, two share y, z varies.
SmoothPointSet == {Vector3(0, 0, 0), Vector3(300, 0, 0), Vector3(300, 600, 3)}

InitSmooth ==
    /\ smPoints \in UNION {[1..n -> SmoothPointSet] : n \in 0..MaxSmoothLen}
    /\ smSmoothed = <<>>
    /\ smDone = FALSE
    /\ smTwice = Null
    /\ IdleChunks /\ IdleFit /\ IdleGeom /\ InitLive /\ InitStore /\ IdleRecover /\ IdleLater

RunSmoothPoints ==
    /\ ~smDone
    /\ smSmoothed' = smoothPoints(smPoints)
    /\ smDone' = TRUE
    /\ UNCHANGED <<smPoints, smTwice, chunkVars, fitVars, geomVars, liveVars, storeVars, recoverVars, laterVars>>

\* smoothPoints applied to the list it returned.
RunSmoothPointsAgain ==
    /\ smDone
    /\ smTwice = Null
    /\ smTwice' = Some(smoothPoints(smSmoothed))
    /\ UNCHANGED <<smPoints, smSmoothed, smDone, chunkVars, fitVars, geomVars,
                   liveVars, storeVars, recoverVars, laterVars>>

NextSmooth == RunSmoothPoints \/ RunSmoothPointsAgain

SpecSmooth == InitSmooth /\ [][NextSmooth]_vars

\* ------------------------------------------------------------------------
\* The handlers of the stores (shared by Spec and SpecLive)
\* ------------------------------------------------------------------------

\* uiController.getPenSettings()
getPenSettings == [width |-> penWidth, color |-> penColor, debugMode |-> debugMode]

\* The ids createStroke would take for these points.
idsOfCreateStroke(points) ==
    IF tooFewPoints(points) THEN 0 ELSE 2 + Len(createChunks(points))

\* StrokeManager.createStroke after the call of chunkedBezierManager's
\* createStroke, r being that call's outcome.
storeStroke(r, nPoints, handler) ==
    /\ whiteboard' = whiteboard \cup r.attached
    /\ nextId' = r.nextId
    /\ allocated' = allocated \cup
           (IF r.kind = "null" THEN {}
            ELSE {Allocated("stroke", r.stroke[1].id, "material", r.stroke[1].material)}
                     \cup {Allocated("stroke", r.stroke[1].id, "geometry", id) :
                               id \in r.attached})
    /\ IF r.kind = "stroke"
       THEN /\ strokes' = Append(strokes,
                   strokeBringToFront(r.stroke[1], getNextZIndex(globalZIndex).value))
            /\ globalZIndex' = getNextZIndex(globalZIndex).next
            /\ rebuilt' = {r.stroke[1].id}
       ELSE /\ UNCHANGED <<strokes, globalZIndex>>
            /\ rebuilt' = {}
    /\ call' = Call(handler, r.kind, nPoints, r.kind = "threw")

\* StrokeManager.createStroke(points, options), called by `handler`: the
\* stroke gets the counter's next z-index and joins the store; a null result
\* and a throw inside ChunkedBezierStrokeManager.createStroke leave the store
\* and the counter alone.
createStroke(points, options, handler) ==
    storeStroke(chunkedCreateStroke(points, options, sceneCamera, nextId),
                Len(points), handler)

\* ------------------------------------------------------------------------
\* Specification SpecLive: one drawing gesture, from the first sample to the
\* stroke that onDrawEnd creates
\* ------------------------------------------------------------------------

\* The samples drawn: 30 grid units are under both thresholds (2 px are 64
\* units at the default view, 0.005 world units are 41), 64 are 2 px exactly,
\* 90 are over both.
LivePoints ==
    {Vector3(0, 0, 0), Vector3(30, 0, 0), Vector3(64, 0, 0), Vector3(90, 0, 0),
     Vector3(0, 90, 0)}

\* The scene objects of the live preview.
livePreviewIds ==
    (IF srCurrentLine = Null THEN {} ELSE {srCurrentLine[1].id})
        \cup (IF srStartCap = Null THEN {} ELSE {srStartCap[1].id})
        \cup (IF srEndCap = Null THEN {} ELSE {srEndCap[1].id})

\* The dispose() calls of endStroke: the line's geometry and material, then
\* startCap.geometry and startCap.material, then endCap.geometry and
\* endCap.material.
livePreviewDisposes ==
    (IF srCurrentLine = Null THEN EmptyBag
     ELSE disposeCalls(<<Disposed("geometry", srCurrentLine[1].id),
                         Disposed("material", srCurrentLine[1].id)>>))
        (+) (IF srStartCap = Null THEN EmptyBag
             ELSE disposeCalls(<<Disposed("geometry", srStartCap[1].geometry),
                                 Disposed("material", srStartCap[1].id)>>))
        (+) (IF srEndCap = Null THEN EmptyBag
             ELSE disposeCalls(<<Disposed("geometry", srEndCap[1].geometry),
                                 Disposed("material", srEndCap[1].id)>>))

\* What startStroke and its createEndCaps allocate, the line taking the id
\* firstId and the caps the next two: the line's geometry and material, the
\* caps' shared CircleGeometry, the material createEndCaps makes as the
\* template of the caps' materials, and the two clones of it.
livePreviewAllocates(firstId) ==
    {Allocated("preview", 0, "geometry", firstId),
     Allocated("preview", 0, "material", firstId),
     Allocated("preview", 0, "geometry", firstId + 1),
     Allocated("preview", 0, "material template", firstId + 1),
     Allocated("preview", 0, "material", firstId + 1),
     Allocated("preview", 0, "material", firstId + 2)}

\* inputManager.onDrawStart = (point) => strokeRenderer.startStroke(point).
\* A line and caps still in place are overwritten, not removed.
onDrawStart ==
    \E point \in LivePoints :
        /\ drawn = Null
        /\ nextId + 2 <= MaxIds
        /\ srPoints' = <<point>>
        /\ srAllPoints' = <<point>>
        /\ srLastScreenPosition' = Some(worldToScreen(point, sceneCamera[1]))
        /\ srCurrentLine' = updateLineGeometry(
               Some([id |-> nextId, renderOrder |-> 999, geometry |-> lineGeometry(<<>>)]),
               <<point>>)
        /\ srStartCap' = Some(previewCap(nextId + 1, nextId + 1, <<point>>, 1))
        /\ srEndCap' = Some(previewCap(nextId + 2, nextId + 1, <<point>>, 1))
        /\ scene' = scene \cup {nextId, nextId + 1, nextId + 2}
        /\ allocated' = allocated \cup livePreviewAllocates(nextId)
        /\ nextId' = nextId + 3
        /\ call' = Call("onDrawStart", "none", 0, FALSE)
        /\ rebuilt' = {}
        /\ UNCHANGED <<samples, drawn, simplified>>
        /\ UNCHANGED <<globalZIndex, strokes, images, selectedStrokes, whiteboard,
                       disposed, debugMode, sceneCamera, dragVars>>
        /\ UNCHANGED <<recoverVars, laterVars, chunkVars, fitVars, geomVars, smoothVars, held>>

\* inputManager.onDrawMove = (point) => strokeRenderer.addPoint(point)
onDrawMove ==
    \E point \in LivePoints :
        /\ srCurrentLine # Null
        /\ Len(srAllPoints) < MaxSamples
        /\ LET screenPos == worldToScreen(point, sceneCamera[1])
               keep == \/ srLastScreenPosition = Null
                       \/ pixelFilterKeeps(screenPos, srLastScreenPosition[1])
               allPoints == Append(srAllPoints, point)
           IN  /\ srAllPoints' = allPoints
               /\ srPoints' = IF keep THEN Append(srPoints, point) ELSE srPoints
               /\ srLastScreenPosition' =
                      IF keep THEN Some(screenPos) ELSE srLastScreenPosition
               /\ srCurrentLine' = updateLineGeometry(srCurrentLine, allPoints)
               /\ srStartCap' = updateEndCaps(srStartCap, allPoints, 1)
               /\ srEndCap' = updateEndCaps(srEndCap, allPoints, Len(allPoints))
        /\ call' = Call("onDrawMove", "none", 0, FALSE)
        /\ rebuilt' = {}
        /\ UNCHANGED <<samples, drawn, simplified>>
        /\ UNCHANGED <<globalZIndex, strokes, images, selectedStrokes, whiteboard, scene,
                       disposed, nextId, debugMode, sceneCamera, dragVars>>
        /\ UNCHANGED <<recoverVars, laterVars, chunkVars, fitVars, geomVars, smoothVars, held, allocated>>

\* inputManager.onDrawEnd: endStroke(), then for 4 points or more
\* filterDensePoints and strokeManager.createStroke.
onDrawEnd ==
    LET points == endStrokePoints(srPoints, srAllPoints)
        simplifiedPoints == filterDensePoints(points, filterMinDistance)
    IN  /\ drawn = Null
        /\ Len(points) >= 4 => nextId + idsOfCreateStroke(simplifiedPoints) - 1 <= MaxIds
        /\ samples' = srAllPoints
        /\ drawn' = Some(points)
        /\ scene' = scene \ livePreviewIds
        /\ disposed' = disposed (+) livePreviewDisposes
        /\ srCurrentLine' = Null /\ srStartCap' = Null /\ srEndCap' = Null
        /\ srPoints' = <<>> /\ srAllPoints' = <<>> /\ srLastScreenPosition' = Null
        /\ IF Len(points) >= 4
           THEN /\ simplified' = Some(simplifiedPoints)
                /\ createStroke(simplifiedPoints, getPenSettings, "onDrawEnd")
           ELSE /\ simplified' = Null
                /\ call' = Call("onDrawEnd", "none", 0, FALSE)
                /\ rebuilt' = {}
                /\ UNCHANGED <<globalZIndex, strokes, whiteboard, nextId, allocated>>
        /\ UNCHANGED <<images, selectedStrokes, debugMode, sceneCamera, dragVars>>
        /\ UNCHANGED <<recoverVars, laterVars, chunkVars, fitVars, geomVars, smoothVars, held>>

InitLiveSpec ==
    InitLive /\ InitStore /\ IdleChunks /\ IdleFit /\ IdleGeom /\ IdleSmooth /\ IdleRecover /\ IdleLater

NextLive == onDrawStart \/ onDrawMove \/ onDrawEnd

SpecLive == InitLiveSpec /\ [][NextLive]_vars

\* ------------------------------------------------------------------------
\* Specification Spec: the stroke and image stores under creation,
\* selection, dragging and deletion, with the debug mode off
\* ------------------------------------------------------------------------

\* The point lists handed to createStroke: too short, one chunk (the five
\* points of the example), three chunks.
StrokeInputs ==
    { LinePoints(3, 100, 0),
      <<Vector3(0, 0, 0), Vector3(Fix(1), 0, 0), Vector3(Fix(2), Fix(1), 0),
        Vector3(Fix(3), Fix(1), 0), Vector3(Fix(4), 0, 0)>>,
      LinePoints(22, 100, 0) }

\* The pointer position where a drag starts, and those it moves to.
DragStarts == {Vector3(0, 0, 0)}
DragPoints == {Vector3(300, 100, 0)}

\* strokeManager.createStroke(points, penSettings)
CreateStroke ==
    \E points \in StrokeInputs :
        /\ nextId + idsOfCreateStroke(points) - 1 <= MaxIds
        /\ globalZIndex < MaxZ
        /\ createStroke(points, getPenSettings, "createStroke")
        /\ UNCHANGED <<images, selectedStrokes, scene, disposed, debugMode, sceneCamera,
                       dragVars>>
        /\ UNCHANGED <<recoverVars, laterVars, chunkVars, fitVars, geomVars, smoothVars, liveVars, held>>

\* imageManager.createImageMesh(texture, position), at the end of
\* createImageFromFile: the mesh joins the whiteboard, the image the store.
CreateImage ==
    \E position \in {Vector3(0, 0, 0)} :
        /\ nextId + 1 <= MaxIds
        /\ globalZIndex < MaxZ
        /\ LET z == getNextZIndex(globalZIndex)
               image == createImageMesh(position, z.value, nextId)
           IN  /\ images' = Append(images, image)
               /\ whiteboard' = whiteboard \cup {image.mesh.id}
               /\ globalZIndex' = z.next
        /\ nextId' = nextId + 2
        /\ call' = Call("onImageImport", "none", 0, FALSE)
        /\ rebuilt' = {}
        /\ UNCHANGED <<strokes, selectedStrokes, scene, disposed, debugMode, sceneCamera,
                       dragVars>>
        /\ UNCHANGED <<recoverVars, laterVars, chunkVars, fitVars, geomVars, smoothVars, liveVars, held, allocated>>

\* selectionManager.selectStroke(stroke).  The outlines, the bounding box
\* and the handles of the selection are not modelled.
SelectStroke ==
    \E ref \in storedRefs(strokes, images) :
        /\ \A k \in 1..Len(selectedStrokes) : selectedStrokes[k] # ref
        /\ selectedStrokes' = Append(selectedStrokes, ref)
        /\ call' = Call("selectStroke", "none", 0, FALSE)
        /\ rebuilt' = {}
        /\ UNCHANGED <<globalZIndex, strokes, images, whiteboard, scene, disposed, nextId,
                       debugMode, sceneCamera, dragVars>>
        /\ UNCHANGED <<recoverVars, laterVars, chunkVars, fitVars, geomVars, smoothVars, liveVars, held, allocated>>

\* selectionManager.deselectAllStrokes()
DeselectAllStrokes ==
    /\ Len(selectedStrokes) > 0
    /\ selectedStrokes' = <<>>
    /\ call' = Call("deselectAllStrokes", "none", 0, FALSE)
    /\ rebuilt' = {}
    /\ UNCHANGED <<globalZIndex, strokes, images, whiteboard, scene, disposed, nextId,
                   debugMode, sceneCamera, dragVars>>
    /\ UNCHANGED <<recoverVars, laterVars, chunkVars, fitVars, geomVars, smoothVars, liveVars, held, allocated>>

\* The start of a transform of the selection, shared by startDragging and
\* startScaling: bringGroupToFront(selectedStrokes), then (after the points
\* are remembered) createPreviewLines(selectedStrokes).
startTransform(handler) ==
    LET front == bringGroupToFront(
                     selectedObjects(selectedStrokes, strokes, images),
                     [strokes |-> strokes, images |-> images,
                      globalZIndex |-> globalZIndex])
        selected == selectedObjects(selectedStrokes, front.strokes, front.images)
        lines == createPreviewLines(onlyStrokes(selected), nextId)
        hidden == meshIdsOf(onlyStrokes(selected))
    IN  /\ globalZIndex' = front.globalZIndex
        /\ images' = front.images
        /\ originalStrokesVisibility' = meshVisibilityOf(onlyStrokes(selected))
        /\ strokes' = setVisibility(front.strokes,
                          [id \in {hidden[k] : k \in 1..Len(hidden)} |-> FALSE])
        /\ previewLines' = previewLines \o lines
        /\ scene' = scene \cup previewObjects(lines)
        /\ nextId' = nextId + 3 * Len(lines)
        /\ call' = Call(handler, "none", 0, FALSE)
        /\ rebuilt' = {}
        /\ UNCHANGED <<selectedStrokes, whiteboard, disposed, debugMode, sceneCamera,
                       held, allocated>>

\* transformManager.startDragging(worldPoint): the selection is brought to
\* the front, its points are remembered, previews replace its meshes.
startDragging(worldPoint) ==
    /\ Len(selectedStrokes) > 0
    /\ isDragging' = TRUE
    /\ dragStartPoint' = Some(worldPoint)
    /\ LET selected == selectedObjects(selectedStrokes, strokes, images)
       IN  strokeOriginalPoints' =
               Strict([k \in 1..Len(selected) |->
                   [stroke |-> Ref(selected[k]),
                    points |-> IF selected[k].type = "image" THEN <<>>
                               ELSE selected[k].points,
                    originalPosition |->
                        IF selected[k].type = "image"
                        THEN Some(selected[k].mesh.position) ELSE Null]])
    /\ startTransform("startDragging")

StartDragging ==
    \E worldPoint \in DragStarts :
        /\ globalZIndex + Len(selectedStrokes) <= MaxZ
        /\ nextId + 3 * Len(onlyStrokes(selectedObjects(selectedStrokes, strokes, images)))
               - 1 <= MaxIds
        /\ startDragging(worldPoint)
        /\ UNCHANGED <<recoverVars, laterVars, chunkVars, fitVars, geomVars, smoothVars, liveVars>>

\* transformManager.updateDrag(currentPoint): the previews are redrawn from
\* the points as they are, then the points move to original + offset.
updateDrag(currentPoint) ==
    /\ isDragging /\ dragStartPoint # Null
    /\ Len(selectedStrokes) > 0
    /\ LET offset == Vector3(currentPoint.x - dragStartPoint[1].x,
                             currentPoint.y - dragStartPoint[1].y, 0)
           moved == dragEach(strokeOriginalPoints, offset,
                             [strokes |-> strokes, images |-> images])
       IN  /\ previewLines' = updatePreviewLines(previewLines, strokes, images)
           /\ strokes' = moved.strokes
           /\ images' = moved.images
    /\ call' = Call("updateDrag", "none", 0, FALSE)
    /\ rebuilt' = {}
    /\ UNCHANGED <<globalZIndex, selectedStrokes, whiteboard, scene, disposed, nextId,
                   debugMode, sceneCamera, isDragging, dragStartPoint,
                   strokeOriginalPoints, originalStrokesVisibility, held, allocated>>

UpdateDrag ==
    \E currentPoint \in DragPoints :
        /\ updateDrag(currentPoint)
        /\ UNCHANGED <<recoverVars, laterVars, chunkVars, fitVars, geomVars, smoothVars, liveVars>>

\* What removePreviewLines disposes.
previewDisposes(lines) ==
    SetToBag(UNION {{Disposed("geometry", id), Disposed("material", id)} :
                        id \in previewObjects(lines)})

\* The ids updateStrokeGeometry would take for these objects.
RECURSIVE idsOfRebuild(_)
idsOfRebuild(objects) ==
    IF objects = <<>> THEN 0
    ELSE (IF Head(objects).type = "image" THEN 0
          ELSE Len(createChunks(Head(objects).points)))
             + idsOfRebuild(Tail(objects))

\* transformManager.stopDragging(): the previews go, the meshes recorded at
\* the start get their visibility back, every selected stroke is rebuilt.
StopDragging ==
    /\ isDragging
    /\ LET selected == selectedObjects(selectedStrokes, strokes, images)
           shown == [id \in {originalStrokesVisibility[k].mesh :
                                 k \in 1..Len(originalStrokesVisibility)} |->
                        originalStrokesVisibility[
                            CHOOSE k \in 1..Len(originalStrokesVisibility) :
                                /\ originalStrokesVisibility[k].mesh = id
                                /\ \A j \in (k + 1)..Len(originalStrokesVisibility) :
                                       originalStrokesVisibility[j].mesh # id
                        ].originalVisible]
           built == rebuildEach(selected, sceneCamera,
                                [strokes |-> setVisibility(strokes, shown),
                                 whiteboard |-> whiteboard,
                                 disposed |-> disposed (+) previewDisposes(previewLines),
                                 allocated |-> allocated,
                                 nextId |-> nextId])
       IN  /\ nextId + idsOfRebuild(selected) - 1 <= MaxIds
           /\ strokes' = built.strokes
           /\ whiteboard' = built.whiteboard
           /\ disposed' = built.disposed
           /\ allocated' = built.allocated
           /\ nextId' = built.nextId
           /\ rebuilt' = {selected[k].id : k \in {j \in 1..Len(selected) :
                                                    selected[j].type # "image"}}
    /\ scene' = scene \ previewObjects(previewLines)
    /\ previewLines' = <<>>
    /\ originalStrokesVisibility' = <<>>
    /\ isDragging' = FALSE
    /\ dragStartPoint' = Null
    /\ strokeOriginalPoints' = Null
    /\ call' = Call("stopDragging", "none", 0, FALSE)
    /\ UNCHANGED <<globalZIndex, images, selectedStrokes, debugMode, sceneCamera>>
    /\ UNCHANGED <<recoverVars, laterVars, chunkVars, fitVars, geomVars, smoothVars, liveVars, held>>

\* The dispose() calls of contentToDelete.forEach in deleteSelectedStrokes.
RECURSIVE deleteDisposes(_)
deleteDisposes(objects) ==
    IF objects = <<>> THEN EmptyBag
    ELSE (IF Head(objects).type = "image" THEN deleteImageDisposes(Head(objects))
          ELSE chunkedDeleteDisposes(Head(objects)))
             (+) deleteDisposes(Tail(objects))

\* WhiteboardDemo.deleteSelectedStrokes(): the selection is cleared, then
\* its strokes and images are deleted.  deleteImage removes the mesh from
\* scene, whose child it is not.
DeleteSelectedStrokes ==
    /\ Len(selectedStrokes) > 0
    /\ LET contentToDelete == selectedObjects(selectedStrokes, strokes, images)
           gone == {Ref(contentToDelete[k]) : k \in 1..Len(contentToDelete)}
           deletedStrokes == onlyStrokes(contentToDelete)
           deletedImages == SelectSeq(contentToDelete, LAMBDA o : o.type = "image")
       IN  /\ selectedStrokes' = <<>>
           /\ strokes' = SelectSeq(strokes, LAMBDA s : Ref(s) \notin gone)
           /\ images' = SelectSeq(images, LAMBDA i : Ref(i) \notin gone)
           /\ whiteboard' = whiteboard \
                  {meshIdsOf(deletedStrokes)[k] : k \in 1..Len(meshIdsOf(deletedStrokes))}
           /\ scene' = scene \ {deletedImages[k].mesh.id : k \in 1..Len(deletedImages)}
           /\ disposed' = disposed (+) deleteDisposes(contentToDelete)
    /\ call' = Call("deleteSelectedStrokes", "none", 0, FALSE)
    /\ rebuilt' = {}
    /\ UNCHANGED <<globalZIndex, nextId, debugMode, sceneCamera, dragVars>>
    /\ UNCHANGED <<recoverVars, laterVars, chunkVars, fitVars, geomVars, smoothVars, liveVars, held, allocated>>

\* strokes.forEach(setDebugMode) of setAllStrokesDebugMode: whether it throws.
setAllStrokesDebugMode(strokeList, enabled) ==
    \E k \in 1..Len(strokeList) : setDebugMode(strokeList[k], enabled).threw

\* The debug button: debugMode flips, then onDebugModeChange runs
\* strokeManager.setAllStrokesDebugMode(enabled).
ToggleDebugMode ==
    /\ debugMode' = ~debugMode
    /\ call' = Call("onDebugModeChange", "none", 0,
                    setAllStrokesDebugMode(strokes, ~debugMode))
    /\ rebuilt' = {}
    /\ UNCHANGED <<globalZIndex, strokes, images, selectedStrokes, whiteboard, scene,
                   disposed, nextId, sceneCamera, dragVars>>
    /\ UNCHANGED <<recoverVars, laterVars, chunkVars, fitVars, geomVars, smoothVars, liveVars, held, allocated>>

Init ==
    InitStore /\ InitLive /\ IdleChunks /\ IdleFit /\ IdleGeom /\ IdleSmooth /\ IdleRecover /\ IdleLater

Next ==
    \/ CreateStroke
    \/ CreateImage
    \/ SelectStroke
    \/ DeselectAllStrokes
    \/ StartDragging
    \/ UpdateDrag
    \/ StopDragging
    \/ DeleteSelectedStrokes

Spec == Init /\ [][Next]_vars

\* ------------------------------------------------------------------------
\* Specification SpecDebug: the stroke store under creation and the debug
\* toggle (the markers of addDebugPoints)
\* ------------------------------------------------------------------------

NextDebug == CreateStroke \/ ToggleDebugMode

SpecDebug == Init /\ [][NextDebug]_vars

\* ------------------------------------------------------------------------
\* Specification SpecLifecycle: the StrokeManager API under any order of
\* createStroke, updateStrokeGeometry, deleteStroke and deleteStrokes calls.
\* The caller keeps the stroke objects it got, deleted ones included (held),
\* and may hand any of them to any call.
\* ------------------------------------------------------------------------

\* Every stroke object the caller can name: the stored ones, then the held.
knownStrokes == strokes \o held

\* ChunkedBezierStrokeManager.deleteStroke(stroke): what it leaves in the
\* stroke object.  stroke.material stays in place.
deletedStroke(stroke) == [stroke EXCEPT !.meshes = <<>>, !.isComplete = FALSE]

deleteStroke_spliceUnguarded(st, ref) ==
    LET stroke == objectOf(ref, st.strokes \o st.held, <<>>)
        stored == isStored(ref, st.strokes, <<>>)
    IN  [strokes |-> IF stored THEN SelectSeq(st.strokes, LAMBDA o : o.id # ref.id)
                     ELSE SubSeq(st.strokes, 1, Len(st.strokes) - 1),
         held |-> IF stored THEN Append(st.held, deletedStroke(stroke))
                  ELSE replaceObject(st.held, deletedStroke(stroke)),
         whiteboard |-> st.whiteboard
                            \ {stroke.meshes[k].id : k \in 1..Len(stroke.meshes)},
         disposed |-> st.disposed (+) chunkedDeleteDisposes(stroke)]

\* StrokeManager.deleteStroke(stroke) on st (the store, the held objects,
\* the whiteboard's children, the dispose() calls): the meshes leave their
\* parent, their geometries and the material are disposed, and the stroke is
\* spliced out of the store if indexOf finds it there.
deleteStroke(st, ref) ==
    LET stroke == objectOf(ref, st.strokes \o st.held, <<>>)
        stored == isStored(ref, st.strokes, <<>>)
    IN  [strokes |-> IF stored THEN SelectSeq(st.strokes, LAMBDA o : o.id # ref.id)
                     ELSE st.strokes,
         held |-> IF stored THEN Append(st.held, deletedStroke(stroke))
                  ELSE replaceObject(st.held, deletedStroke(stroke)),
         whiteboard |-> st.whiteboard
                            \ {stroke.meshes[k].id : k \in 1..Len(stroke.meshes)},
         disposed |-> st.disposed (+) chunkedDeleteDisposes(stroke)]

\* StrokeManager.deleteStrokes(strokeArray): strokeArray.forEach(deleteStroke)
RECURSIVE deleteStrokes(_, _)
deleteStrokes(st, strokeArray) ==
    IF strokeArray = <<>> THEN st
    ELSE deleteStrokes(deleteStroke(st, Head(strokeArray)), Tail(strokeArray))

\* No resource has had more dispose() calls than the model follows.
withinDisposals(bag) == \A r \in BagToSet(bag) : CopiesIn(r, bag) <= MaxDisposals

\* The store as the delete operators take it.
storeNow ==
    [strokes |-> strokes, held |-> held, whiteboard |-> whiteboard,
     disposed |-> disposed]

\* A caller moves the points of a stored stroke in place, as updateDrag does
\* (stroke.points[i] = original + offset); no geometry is touched.  A stroke
\* is moved away from where it was created once.
MovePoints ==
    \E k \in 1..Len(strokes), offset \in DragPoints :
        /\ strokes[k].points[1].x < offset.x
        /\ strokes' = [strokes EXCEPT ![k].points =
                           draggedPoints(@, strokes[k].points, offset)]
        /\ call' = Call("movePoints", "none", 0, FALSE)
        /\ rebuilt' = {}
        /\ UNCHANGED <<globalZIndex, images, selectedStrokes, whiteboard, scene, disposed,
                       nextId, debugMode, sceneCamera, dragVars>>
        /\ UNCHANGED <<recoverVars, laterVars, chunkVars, fitVars, geomVars, smoothVars, liveVars, held, allocated>>

\* strokeManager.updateStrokeGeometry(stroke), for any stroke object the
\* caller can name.
UpdateStrokeGeometry ==
    \E k \in 1..Len(knownStrokes) :
        LET stroke == knownStrokes[k]
            r == updateStrokeGeometry(stroke, sceneCamera, nextId)
            st == applyRebuild([strokes |-> strokes, whiteboard |-> whiteboard,
                                disposed |-> disposed, allocated |-> allocated,
                                nextId |-> nextId], r)
        IN  /\ nextId + Len(createChunks(stroke.points)) - 1 <= MaxIds
            /\ strokes' = st.strokes
            /\ held' = replaceObject(held, r.stroke)
            /\ whiteboard' = st.whiteboard
            /\ disposed' = st.disposed
            /\ allocated' = st.allocated
            /\ nextId' = st.nextId
            /\ call' = Call("updateStrokeGeometry", "none", Len(stroke.points), FALSE)
            /\ rebuilt' = {stroke.id}
            /\ UNCHANGED <<globalZIndex, images, selectedStrokes, scene, debugMode,
                           sceneCamera, dragVars>>
            /\ UNCHANGED <<recoverVars, laterVars, chunkVars, fitVars, geomVars, smoothVars, liveVars>>

\* strokeManager.deleteStroke(stroke), for any stroke object the caller can
\* name.
DeleteStroke ==
    \E k \in 1..Len(knownStrokes) :
        LET st == deleteStroke(storeNow, Ref(knownStrokes[k]))
        IN  /\ withinDisposals(st.disposed)
            /\ strokes' = st.strokes
            /\ held' = st.held
            /\ whiteboard' = st.whiteboard
            /\ disposed' = st.disposed
            /\ call' = Call("deleteStroke", "none", 0, FALSE)
            /\ rebuilt' = {}
            /\ UNCHANGED <<globalZIndex, images, selectedStrokes, scene, nextId, debugMode,
                           sceneCamera, dragVars>>
            /\ UNCHANGED <<recoverVars, laterVars, chunkVars, fitVars, geomVars, smoothVars, liveVars, allocated>>

\* strokeManager.deleteStrokes(strokeArray), for any array of two of the
\* stroke objects the caller can name, the same one twice included.
DeleteStrokes ==
    \E j, k \in 1..Len(knownStrokes) :
        LET st == deleteStrokes(storeNow, <<Ref(knownStrokes[j]), Ref(knownStrokes[k])>>)
        IN  /\ withinDisposals(st.disposed)
            /\ strokes' = st.strokes
            /\ held' = st.held
            /\ whiteboard' = st.whiteboard
            /\ disposed' = st.disposed
            /\ call' = Call("deleteStrokes", "none", 0, FALSE)
            /\ rebuilt' = {}
            /\ UNCHANGED <<globalZIndex, images, selectedStrokes, scene, nextId, debugMode,
                           sceneCamera, dragVars>>
            /\ UNCHANGED <<recoverVars, laterVars, chunkVars, fitVars, geomVars, smoothVars, liveVars, allocated>>

\* strokeManager.createStroke, while the caller has fewer than MaxLifeStrokes
\* stroke objects.
LifeCreateStroke == Len(knownStrokes) < MaxLifeStrokes /\ CreateStroke

NextLifecycle ==
    \/ LifeCreateStroke
    \/ MovePoints
    \/ UpdateStrokeGeometry
    \/ DeleteStroke
    \/ DeleteStrokes

SpecLifecycle == Init /\ [][NextLifecycle]_vars

\* ------------------------------------------------------------------------
\* Specification SpecRecover: the recovery from a failed fit, each part on
\* its own.  The matrix createSegment inverts is never singular and every
\* chunk of createChunks has 4 points or more, so no run of createStroke
\* reaches these paths; here Matrix.inverse gets a drawn matrix, the try
\* block of createSegment gets its outcome, and the chunk loop of
\* createStroke gets [] as the fit of drawn chunks.
\* ------------------------------------------------------------------------

\* The matrices drawn: the symmetric 2 x 2 matrices over 0, 1 and 4 (singular
\* ones, ones that need the row swap, the constant matrix of a 4-point
\* list), and one that is not square.
RecoverMatrices ==
    {[rows |-> 2, cols |-> 2,
      data |-> <<<<Fix(a), Fix(b)>>, <<Fix(b), Fix(d)>>>>] : a, b, d \in {0, 1, 4}}
        \cup {Matrix(2, 3)}

\* The sets of chunks whose fit fails, for the three chunks of RecoverStroke.
RecoverFailures == {{}, {1}, {0, 2}, {0, 1, 2}}

\* The point list handed to createStroke: 22 points, three chunks.
RecoverStroke == LinePoints(22, 100, 0)

InitRecover ==
    /\ \E M \in RecoverMatrices : recC = Some(M)
    /\ recInverse = Null
    /\ recFailed \in RecoverFailures
    /\ \E n \in 3..4 : fitPoints = FitPoints(n, 1, 1, 1)
    /\ fitSegments = <<>>
    /\ fitDone = FALSE
    /\ IdleChunks /\ IdleGeom /\ IdleSmooth /\ InitLive /\ InitStore /\ IdleLater

\* C.inverse() for the drawn matrix.
RunInverse ==
    /\ recInverse = Null
    /\ recInverse' = Some(inverse(recC[1]))
    /\ UNCHANGED <<recC, recFailed, chunkVars, fitVars, geomVars, smoothVars, liveVars,
                   storeVars, laterVars>>

\* createSegment(fitPoints), its C.inverse() having had that outcome.
RunCreateSegmentOn ==
    /\ recInverse # Null
    /\ ~fitDone
    /\ fitSegments' = createSegmentOn(fitPoints, recInverse[1])
    /\ fitDone' = TRUE
    /\ UNCHANGED <<fitPoints, recoverVars, laterVars, chunkVars, geomVars, smoothVars, liveVars,
                   storeVars>>

\* ChunkedBezierStrokeManager.createStroke with the fits of recFailed failing.
chunkedCreateStrokeOn(points, options, camera, firstId, failed) ==
    IF tooFewPoints(points)
    THEN [kind |-> "null", stroke |-> Null, attached |-> {}, nextId |-> firstId]
    ELSE completedStroke(
             createStrokeChunksOn(
                 [meshes |-> <<>>, segmentCount |-> 0, nextId |-> firstId + 2],
                 createChunks(points), 0, points,
                 createStrokeMaterial(options.color, options.width, firstId + 1).id,
                 options.width, camera, failed),
             points, options, firstId)

\* strokeManager.createStroke(RecoverStroke, penSettings), the fits of the
\* chunks in recFailed returning [].
CreateStrokeOn ==
    /\ fitDone
    /\ call.handler = "init"
    /\ storeStroke(chunkedCreateStrokeOn(RecoverStroke, getPenSettings, sceneCamera,
                                         nextId, recFailed),
                   Len(RecoverStroke), "createStroke")
    /\ UNCHANGED <<images, selectedStrokes, scene, disposed, debugMode, sceneCamera,
                   dragVars, held>>
    /\ UNCHANGED <<recoverVars, laterVars, chunkVars, fitVars, geomVars, smoothVars, liveVars>>

NextRecover == RunInverse \/ RunCreateSegmentOn \/ CreateStrokeOn

SpecRecover == InitRecover /\ [][NextRecover]_vars

\* ------------------------------------------------------------------------
\* Specification SpecChunkLoop: the while loop of createChunks, one
\* iteration per step
\* ------------------------------------------------------------------------

\* One pass through the body of the while loop of createChunks: the chunk
\* list after it, the next startIdx, and whether the loop was left by break.
chunkIteration(points, startIdx, chunks) ==
    LET endIdx == Min(startIdx + chunkSize, Len(points))
        chunkPoints == slice(points, startIdx, endIdx)
    IN  [chunks |-> IF Len(chunkPoints) >= minChunkPoints
                    THEN Append(chunks, [startIndex |-> startIdx,
                                         endIndex |-> endIdx,
                                         points |-> chunkPoints])
                    ELSE chunks,
         break |-> endIdx >= Len(points),
         startIdx |-> IF endIdx >= Len(points) THEN startIdx ELSE nextStart(endIdx)]

InitChunkLoop ==
    /\ \E n \in 0..MaxChunkLen, step \in 1..2, z \in 0..1 :
           chkPoints = LinePoints(n, step, z)
    /\ chkChunks = <<>>
    /\ chkDone = FALSE
    /\ IdleLoop /\ IdleButLoop
    /\ IdleFit /\ IdleGeom /\ IdleSmooth /\ InitLive /\ InitStore /\ IdleRecover

\* while (startIdx < points.length) { ... }: the condition and, when it
\* holds, one pass through the body.
WhileStep ==
    /\ ~chkDone
    /\ loopIterations <= MaxChunkLen + 1
    /\ IF ~(loopStartIdx < Len(chkPoints))
       THEN /\ chkDone' = TRUE
            /\ UNCHANGED <<chkChunks, loopStartIdx, loopIterations>>
       ELSE LET it == chunkIteration(chkPoints, loopStartIdx, chkChunks)
            IN  /\ chkChunks' = it.chunks
                /\ loopStartIdx' = it.startIdx
                /\ loopIterations' = loopIterations + 1
                /\ chkDone' = it.break
    /\ UNCHANGED <<chkPoints, fitVars, geomVars, smoothVars, liveVars, storeVars,
                   recoverVars, laterButLoop>>

NextChunkLoop == WhileStep

\* The loop is the body of a synchronous call: it keeps running.
SpecChunkLoop == InitChunkLoop /\ [][NextChunkLoop]_vars /\ WF_vars(WhileStep)

\* ------------------------------------------------------------------------
\* Specification SpecSubdivisions: calculateSubdivisions as the view is
\* zoomed
\* ------------------------------------------------------------------------

\* The view heights drawn: 0.1, 0.2, ... world units (3 is the default view,
\* 0.3 is 10x zoom).
ViewHeights == {Fix(k) \div 10 : k \in 1..MaxViewTenths}

InitSubdivisions ==
    /\ geoCamera \in {Null} \cup {Some(Camera(h)) : h \in ViewHeights}
    /\ subCount = Null
    /\ subPrev = Null
    /\ geoSegments = <<>> /\ geoStartCap = Null /\ geoEndCap = Null
    /\ geoFacts = Null /\ geoBuffers = Null /\ geoDone = FALSE
    /\ IdleChunks /\ IdleFit /\ IdleSmooth /\ InitLive /\ InitStore /\ IdleRecover
    /\ IdleButSubdiv

\* this.calculateSubdivisions() for the camera as it is now.
RunCalculateSubdivisions ==
    /\ subCount = Null
    /\ subCount' = Some(calculateSubdivisions(geoCamera))
    /\ UNCHANGED <<subPrev, chunkVars, fitVars, geomVars, smoothVars, liveVars,
                   storeVars, recoverVars, laterButSubdiv>>

\* The view is zoomed to another height (the camera's top and bottom are
\* set); the count of the view before is remembered.
ZoomView ==
    /\ subCount # Null
    /\ geoCamera # Null
    /\ \E h \in ViewHeights :
           /\ h # geoCamera[1].top - geoCamera[1].bottom
           /\ geoCamera' = Some(Camera(h))
    /\ subPrev' = Some([viewHeight |-> geoCamera[1].top - geoCamera[1].bottom,
                        subdivisions |-> subCount[1]])
    /\ subCount' = Null
    /\ UNCHANGED <<geoSegments, geoStartCap, geoEndCap, geoFacts, geoBuffers, geoDone,
                   chunkVars, fitVars, smoothVars, liveVars, storeVars, recoverVars,
                   laterButSubdiv>>

NextSubdivisions == RunCalculateSubdivisions \/ ZoomView

SpecSubdivisions == InitSubdivisions /\ [][NextSubdivisions]_vars

\* ------------------------------------------------------------------------
\* Specification SpecStats: getStats of the stroke createStroke returns, for
\* every list length up to MaxStatsLen
\* ------------------------------------------------------------------------

\* getStats(stroke) for what createStroke returned: null for null.
getStatsOrNull(stroke) ==
    IF stroke = Null THEN Null ELSE Some(getStats(stroke[1]))

InitStats ==
    /\ \E n \in 3..MaxStatsLen, step \in 1..2 :
           chkPoints = LinePoints(n, 100 * step, 0)
    /\ chkChunks = <<>>
    /\ chkDone = FALSE
    /\ stats = Null
    /\ IdleButStats
    /\ IdleFit /\ IdleGeom /\ IdleSmooth /\ InitLive /\ InitStore /\ IdleRecover

\* strokeManager.createStroke(chkPoints, penSettings)
CreateStrokeForStats ==
    /\ call.handler = "init"
    /\ createStroke(chkPoints, getPenSettings, "createStroke")
    /\ UNCHANGED <<images, selectedStrokes, scene, disposed, debugMode, sceneCamera,
                   dragVars, held>>
    /\ UNCHANGED <<stats, laterButStats, recoverVars, chunkVars, fitVars, geomVars,
                   smoothVars, liveVars>>

\* chunkedBezierManager.getStats(stroke) for the stroke that call returned.
GetStats ==
    /\ call.handler = "createStroke"
    /\ stats = Null
    /\ stats' = Some(getStatsOrNull(IF strokes = <<>> THEN Null ELSE Some(strokes[1])))
    /\ UNCHANGED <<laterButStats, recoverVars, chunkVars, fitVars, geomVars,
                   smoothVars, liveVars, storeVars>>

NextStats == CreateStrokeForStats \/ GetStats

SpecStats == InitStats /\ [][NextStats]_vars

\* ------------------------------------------------------------------------
\* Specification SpecStoreList: StrokeManager.strokes under any order of
\* createStroke, deleteStroke and deleteStrokes calls, the caller naming any
\* stroke object it ever got
\* ------------------------------------------------------------------------

\* The point lists handed to createStroke: too short (null), and long enough.
StoreInputs == {LinePoints(3, 100, 0), LinePoints(5, 100, 0)}

\* this.strokes.indexOf(stroke) > -1 for each stroke of strokeArray in
\* turn, the earlier deletions done: the number of splices.
RECURSIVE spliceCount(_, _)
spliceCount(st, strokeArray) ==
    IF strokeArray = <<>> THEN 0
    ELSE (IF isStored(Head(strokeArray), st.strokes, <<>>) THEN 1 ELSE 0)
             + spliceCount(deleteStroke(st, Head(strokeArray)), Tail(strokeArray))

\* strokeManager.createStroke(points, penSettings); getStrokeCount() follows.
StoreCreateStroke ==
    \E points \in StoreInputs :
        /\ nextId + idsOfCreateStroke(points) - 1 <= MaxIds
        /\ globalZIndex < MaxZ
        /\ createStroke(points, getPenSettings, "createStroke")
        /\ apiArgs' = <<>>
        /\ apiCreated' = apiCreated + (IF tooFewPoints(points) THEN 0 ELSE 1)
        /\ UNCHANGED <<images, selectedStrokes, scene, disposed, debugMode, sceneCamera,
                       dragVars, held, apiDeleted>>
        /\ UNCHANGED <<laterButApi, recoverVars, chunkVars, fitVars, geomVars,
                       smoothVars, liveVars>>

\* The store after strokeManager.deleteStrokes(strokeArray); deleteStroke is
\* the case of one stroke.
storeDelete(strokeArray, handler) ==
    LET st == deleteStrokes(storeNow, strokeArray)
    IN  /\ withinDisposals(st.disposed)
        /\ strokes' = st.strokes
        /\ held' = st.held
        /\ whiteboard' = st.whiteboard
        /\ disposed' = st.disposed
        /\ call' = Call(handler, "none", 0, FALSE)
        /\ rebuilt' = {}
        /\ apiArgs' = [k \in 1..Len(strokeArray) |-> strokeArray[k].id]
        /\ apiDeleted' = apiDeleted + spliceCount(storeNow, strokeArray)
        /\ UNCHANGED <<globalZIndex, images, selectedStrokes, scene, nextId, debugMode,
                       sceneCamera, dragVars, allocated, apiCreated>>
        /\ UNCHANGED <<laterButApi, recoverVars, chunkVars, fitVars, geomVars,
                       smoothVars, liveVars>>

\* strokeManager.deleteStroke(stroke), for any stroke object the caller can
\* name, stored or not.
StoreDeleteStroke ==
    \E k \in 1..Len(knownStrokes) :
        storeDelete(<<Ref(knownStrokes[k])>>, "deleteStroke")

\* strokeManager.deleteStrokes(strokeArray), for any array of two of the
\* stroke objects the caller can name, the same one twice included.
StoreDeleteStrokes ==
    \E j, k \in 1..Len(knownStrokes) :
        storeDelete(<<Ref(knownStrokes[j]), Ref(knownStrokes[k])>>, "deleteStrokes")

InitStoreList ==
    /\ InitStore /\ InitLive /\ IdleChunks /\ IdleFit /\ IdleGeom /\ IdleSmooth
    /\ IdleRecover /\ IdleButApi
    /\ IdleApi

NextStoreList == StoreCreateStroke \/ StoreDeleteStroke \/ StoreDeleteStrokes

SpecStoreList == InitStoreList /\ [][NextStoreList]_vars

\* ------------------------------------------------------------------------
\* Specification SpecTransform: one drag or scale session of a selection of
\* strokes, the pointer moving anywhere
\* ------------------------------------------------------------------------

\* The least and the greatest of a set of numbers that is not empty.
least(S) == CHOOSE a \in S : \A b \in S : a <= b
greatest(S) == CHOOSE a \in S : \A b \in S : a >= b

\* SelectionManager.calculateBounds(strokes), for strokes with points.
calculateBounds(strokeObjects) ==
    LET all == UNION {{strokeObjects[k].points[i] : i \in 1..Len(strokeObjects[k].points)} :
                          k \in 1..Len(strokeObjects)}
    IN  [minX |-> least({p.x : p \in all}), maxX |-> greatest({p.x : p \in all}),
         minY |-> least({p.y : p \in all}), maxY |-> greatest({p.y : p \in all})]

\* The transform handles' userData.direction, and direction.includes(c).
handleDirections == {"sw", "se", "ne", "nw", "s", "e", "n", "w"}

includes(direction, c) ==
    c \in (CASE direction = "sw" -> {"s", "w"} [] direction = "se" -> {"s", "e"}
             [] direction = "ne" -> {"n", "e"} [] direction = "nw" -> {"n", "w"}
             [] OTHER -> {direction})

\* padding = 0.05 and the least size 0.001 of updateScale.
scalePadding == Fix(5) \div 100
minScaledSize == Fix(1) \div 1000

\* A point as startScaling remembers it.
scaleOriginal(p, bounds) ==
    [x |-> p.x, y |-> p.y, z |-> p.z,
     normalizedX |-> IF bounds.maxX - bounds.minX = 0 THEN 0
                     ELSE FDiv(p.x - bounds.minX, bounds.maxX - bounds.minX),
     normalizedY |-> IF bounds.maxY - bounds.minY = 0 THEN 0
                     ELSE FDiv(p.y - bounds.minY, bounds.maxY - bounds.minY)]

\* transformManager.startScaling(worldPoint, handle).  The selection holds
\* strokes only in this specification.
startScaling(worldPoint, handle) ==
    /\ Len(selectedStrokes) > 0
    /\ isScaling' = TRUE
    /\ scaleHandle' = Some(handle)
    /\ scaleStartPoint' = Some(worldPoint)
    /\ LET selected == selectedObjects(selectedStrokes, strokes, images)
           bounds == calculateBounds(selected)
       IN  /\ scaleStartBounds' = Some(bounds)
           /\ strokesOriginalPointsForScale' =
                  Some(Strict([k \in 1..Len(selected) |->
                      [stroke |-> Ref(selected[k]),
                       points |-> Strict([i \in 1..Len(selected[k].points) |->
                                      scaleOriginal(selected[k].points[i], bounds)])]]))
    /\ startTransform("startScaling")
    /\ UNCHANGED <<currentFlipX, currentFlipY, isDragging, dragStartPoint,
                   strokeOriginalPoints>>

\* The bounds updateScale computes from the pointer, before any swap.
scaledBounds(currentPoint, direction, bounds) ==
    LET deltaX == IF includes(direction, "e")
                  THEN currentPoint.x - (bounds.maxX + scalePadding)
                  ELSE IF includes(direction, "w")
                  THEN currentPoint.x - (bounds.minX - scalePadding)
                  ELSE 0
        deltaY == IF includes(direction, "n")
                  THEN currentPoint.y - (bounds.maxY + scalePadding)
                  ELSE IF includes(direction, "s")
                  THEN currentPoint.y - (bounds.minY - scalePadding)
                  ELSE 0
    IN  [minX |-> IF includes(direction, "w") THEN bounds.minX + deltaX ELSE bounds.minX,
         maxX |-> IF includes(direction, "e") THEN bounds.maxX + deltaX ELSE bounds.maxX,
         minY |-> IF includes(direction, "s") THEN bounds.minY + deltaY ELSE bounds.minY,
         maxY |-> IF includes(direction, "n") THEN bounds.maxY + deltaY ELSE bounds.maxY]

\* The points of one stroke as updateScale sets them.
scaledPoints(originals, b, flipX, flipY) ==
    Strict([i \in 1..Len(originals) |->
        LET original == originals[i]
            normalizedX == IF flipX THEN Fix(1) - original.normalizedX
                           ELSE original.normalizedX
            normalizedY == IF flipY THEN Fix(1) - original.normalizedY
                           ELSE original.normalizedY
            newMinX == Min(b.minX, b.maxX)
            newMinY == Min(b.minY, b.maxY)
        IN  Vector3(newMinX + FMul(normalizedX, Abs(b.maxX - b.minX)),
                    newMinY + FMul(normalizedY, Abs(b.maxY - b.minY)),
                    original.z)])

\* strokesOriginalPointsForScale.forEach of updateScale on the stroke store
\* and the previews: the points are set, then updatePreviewLineGeometry
\* redraws the preview of the same index.
RECURSIVE scaleEach(_, _, _, _, _, _)
scaleEach(originals, strokeIndex, b, flipX, flipY, st) ==
    IF strokeIndex > Len(originals) THEN st
    ELSE LET entry == originals[strokeIndex]
             points == scaledPoints(entry.points, b, flipX, flipY)
             obj == objectOf(entry.stroke, st.strokes, <<>>)
         IN  scaleEach(originals, strokeIndex + 1, b, flipX, flipY,
                 [strokes |-> replaceObject(st.strokes, [obj EXCEPT !.points = points]),
                  lines |-> IF strokeIndex > Len(st.lines) THEN st.lines
                            ELSE [st.lines EXCEPT
                                     ![strokeIndex].line.geometry = lineGeometry(points),
                                     ![strokeIndex].startCap.position = points[1],
                                     ![strokeIndex].endCap.position = points[Len(points)]]])

\* transformManager.updateScale(currentPoint)
updateScale(currentPoint) ==
    /\ isScaling /\ scaleHandle # Null /\ scaleStartPoint # Null
    /\ LET b == scaledBounds(currentPoint, scaleHandle[1], scaleStartBounds[1])
           flipX == b.minX > b.maxX
           flipY == b.minY > b.maxY
       IN  IF Abs(b.maxX - b.minX) < minScaledSize \/ Abs(b.maxY - b.minY) < minScaledSize
           THEN UNCHANGED <<strokes, previewLines, currentFlipX, currentFlipY>>
           ELSE LET scaled == scaleEach(strokesOriginalPointsForScale[1], 1, b, flipX, flipY,
                                        [strokes |-> strokes, lines |-> previewLines])
                IN  /\ strokes' = scaled.strokes
                    /\ previewLines' = scaled.lines
                    /\ currentFlipX' = flipX
                    /\ currentFlipY' = flipY
    /\ call' = Call("updateScale", "none", 0, FALSE)
    /\ rebuilt' = {}
    /\ UNCHANGED <<globalZIndex, images, selectedStrokes, whiteboard, scene, disposed,
                   nextId, debugMode, sceneCamera, isDragging, dragStartPoint,
                   strokeOriginalPoints, originalStrokesVisibility, held, allocated,
                   isScaling, scaleHandle, scaleStartPoint, scaleStartBounds,
                   strokesOriginalPointsForScale>>

\* The point lists of the strokes transformed: points at several depths, and
\* a horizontal line (its bounds have no height).
TransformInputs ==
    { <<Vector3(0, 0, 0), Vector3(Fix(1), 0, 1), Vector3(Fix(2), Fix(1), 2),
        Vector3(Fix(3), Fix(1), 0), Vector3(Fix(4), 0, 1)>>,
      LinePoints(5, 100, 7) }

\* Where a session starts and where the pointer moves: in front of, on and
\* behind the board.
TransformStarts == {Vector3(0, 0, 0), Vector3(100, 100, 3)}
TransformPoints ==
    {Vector3(300, 100, 5), Vector3(0 - 200, 50, 0), Vector3(Fix(5), Fix(2), 9)}

\* The handles a scale session is started with.
TransformHandles == {"se", "nw", "n", "w"}

\* The points of the selected strokes, as they are now.
selectedPoints ==
    LET selected == selectedObjects(selectedStrokes, strokes, images)
    IN  Strict([k \in 1..Len(selected) |->
            [stroke |-> Ref(selected[k]), points |-> selected[k].points]])

inSession == isDragging \/ isScaling

TransformCreateStroke ==
    \E points \in TransformInputs :
        /\ ~inSession
        /\ Len(strokes) < MaxTransformStrokes
        /\ createStroke(points, getPenSettings, "createStroke")
        /\ UNCHANGED <<images, selectedStrokes, scene, disposed, debugMode, sceneCamera,
                       dragVars, held>>
        /\ UNCHANGED <<transformVars, laterButTransform, recoverVars, chunkVars, fitVars,
                       geomVars, smoothVars, liveVars>>

\* selectionManager.selectStroke(stroke), outside a session.
TransformSelectStroke ==
    \E ref \in storedRefs(strokes, images) :
        /\ ~inSession
        /\ \A k \in 1..Len(selectedStrokes) : selectedStrokes[k] # ref
        /\ selectedStrokes' = Append(selectedStrokes, ref)
        /\ call' = Call("selectStroke", "none", 0, FALSE)
        /\ rebuilt' = {}
        /\ UNCHANGED <<globalZIndex, strokes, images, whiteboard, scene, disposed, nextId,
                       debugMode, sceneCamera, dragVars, held, allocated>>
        /\ UNCHANGED <<transformVars, laterButTransform, recoverVars, chunkVars, fitVars,
                       geomVars, smoothVars, liveVars>>

TransformStartDragging ==
    \E worldPoint \in TransformStarts :
        /\ ~inSession
        /\ startDragging(worldPoint)
        /\ pointer' = Null
        /\ atStart' = selectedPoints
        /\ UNCHANGED <<isScaling, scaleHandle, scaleStartPoint, scaleStartBounds,
                       strokesOriginalPointsForScale, currentFlipX, currentFlipY>>
        /\ UNCHANGED <<laterButTransform, recoverVars, chunkVars, fitVars, geomVars,
                       smoothVars, liveVars>>

TransformUpdateDrag ==
    \E currentPoint \in TransformPoints :
        /\ updateDrag(currentPoint)
        /\ pointer' = Some(currentPoint)
        /\ UNCHANGED <<isScaling, scaleHandle, scaleStartPoint, scaleStartBounds,
                       strokesOriginalPointsForScale, currentFlipX, currentFlipY, atStart>>
        /\ UNCHANGED <<laterButTransform, recoverVars, chunkVars, fitVars, geomVars,
                       smoothVars, liveVars>>

TransformStartScaling ==
    \E worldPoint \in TransformStarts, handle \in TransformHandles :
        /\ ~inSession
        /\ startScaling(worldPoint, handle)
        /\ pointer' = Null
        /\ atStart' = selectedPoints
        /\ UNCHANGED <<laterButTransform, recoverVars, chunkVars, fitVars, geomVars,
                       smoothVars, liveVars>>

TransformUpdateScale ==
    \E currentPoint \in TransformPoints :
        /\ updateScale(currentPoint)
        /\ pointer' = Some(currentPoint)
        /\ atStart' = atStart
        /\ UNCHANGED <<laterButTransform, recoverVars, chunkVars, fitVars, geomVars,
                       smoothVars, liveVars>>

InitTransform ==
    /\ InitStore /\ InitLive /\ IdleChunks /\ IdleFit /\ IdleGeom /\ IdleSmooth
    /\ IdleRecover /\ IdleButTransform
    /\ IdleTransform

NextTransform ==
    \/ TransformCreateStroke
    \/ TransformSelectStroke
    \/ TransformStartDragging
    \/ TransformUpdateDrag
    \/ TransformStartScaling
    \/ TransformUpdateScale

SpecTransform == InitTransform /\ [][NextTransform]_vars

\* ------------------------------------------------------------------------
\* The preview ribbon (StrokeRenderer.updateLineGeometry and
\* TransformManager.updateRibbonGeometry)
\* ------------------------------------------------------------------------

\* Math.sqrt of a fixed-point square, rounded down to the grid.
RECURSIVE sqrtBetween(_, _, _)
sqrtBetween(v, lo, hi) ==
    IF lo >= hi THEN lo
    ELSE LET mid == (lo + hi + 1) \div 2
         IN  IF mid * mid <= v THEN sqrtBetween(v, mid, hi)
             ELSE sqrtBetween(v, lo, mid - 1)

sqrt(v) == sqrtBetween(v, 0, Min(v, 46340))

\* The tangent estimated at point i: to the next point at the first point,
\* from the previous one at the last, the sum of both in between.
tangentAt(points, i) ==
    IF i = 1
        THEN [x |-> points[2].x - points[1].x, y |-> points[2].y - points[1].y]
    ELSE IF i = Len(points)
        THEN [x |-> points[i].x - points[i - 1].x, y |-> points[i].y - points[i - 1].y]
    ELSE [x |-> (points[i].x - points[i - 1].x) + (points[i + 1].x - points[i].x),
          y |-> (points[i].y - points[i - 1].y) + (points[i + 1].y - points[i].y)]

\* if (length > 0) { tangent.x /= length; tangent.y /= length; } on the
\* tangent computed for this point: a zero tangent stays zero.
normalizedTangent(points, i, tangent) ==
    LET length == sqrt(tangent.x * tangent.x + tangent.y * tangent.y)
    IN  IF length > 0
            THEN [x |-> FDiv(tangent.x, length), y |-> FDiv(tangent.y, length)]
        ELSE tangent

\* The two vertices pushed for point i: point + normal * halfWidth and
\* point - normal * halfWidth, normal = (-tangent.y, tangent.x).
sideVertices(points, i, halfWidth) ==
    LET point == points[i]
        tangent == normalizedTangent(points, i, tangentAt(points, i))
        normal == [x |-> 0 - tangent.y, y |-> tangent.x]
    IN  <<Vector3(point.x + FMul(normal.x, halfWidth),
                  point.y + FMul(normal.y, halfWidth), point.z),
          Vector3(point.x - FMul(normal.x, halfWidth),
                  point.y - FMul(normal.y, halfWidth), point.z)>>

\* cos and sin of i / 8 of a turn, i = 0..8.
circle8 ==
    <<<<8192, 0>>, <<5793, 5793>>, <<0, 8192>>, <<-5793, 5793>>, <<-8192, 0>>,
      <<-5793, -5793>>, <<0, -8192>>, <<5793, -5793>>, <<8192, 0>>>>

\* The position attribute of the ribbon: nine vertices of a dot for one
\* point, the side vertices of every point otherwise.
ribbonPositions_of(points, halfWidth) ==
    IF Len(points) = 1
        THEN Strict([k \in 1..9 |->
                 Vector3(points[1].x + RoundDiv(circle8[k][1] * halfWidth, 8192),
                         points[1].y + RoundDiv(circle8[k][2] * halfWidth, 8192),
                         points[1].z)])
    ELSE Strict([k \in 1..2 * Len(points) |->
             sideVertices(points, (k + 1) \div 2, halfWidth)[2 - (k % 2)]])

\* The points the pointer reports (3-4-5 steps, so that lengths are whole).
RibbonPoints ==
    {Vector3(0, 0, 0), Vector3(300, 0, 0), Vector3(300, 400, 0), Vector3(0, 400, 0)}

\* stroke.width of the strokes previewed in a transform.
RibbonWidths == {Scale \div 50, Scale \div 20}

\* startStroke(startPoint): allPoints = [startPoint], then updateLineGeometry().
RibbonStartStroke ==
    \E startPoint \in RibbonPoints :
        /\ ribbonSource' = "updateLineGeometry"
        /\ ribbonPoints' = <<startPoint>>
        /\ ribbonHalfWidth' = previewLineWidth
        /\ ribbonPositions' = ribbonPositions_of(<<startPoint>>, previewLineWidth)
        /\ UNCHANGED <<laterButRibbon, recoverVars, chunkVars, fitVars, geomVars,
                       smoothVars, liveVars, storeVars>>

\* addPoint(point): every point goes to allPoints, whatever its distance to
\* the last one, then updateLineGeometry().
RibbonAddPoint ==
    \E point \in RibbonPoints :
        /\ ribbonSource = "updateLineGeometry"
        /\ Len(ribbonPoints) < MaxRibbonLen
        /\ ribbonPoints' = Append(ribbonPoints, point)
        /\ ribbonPositions' = ribbonPositions_of(Append(ribbonPoints, point), previewLineWidth)
        /\ UNCHANGED <<ribbonSource, ribbonHalfWidth>>
        /\ UNCHANGED <<laterButRibbon, recoverVars, chunkVars, fitVars, geomVars,
                       smoothVars, liveVars, storeVars>>

\* updateRibbonGeometry(mesh, points, strokeWidth) on the preview line of a
\* stroke in a transform: the same construction on the stroke's points.
RibbonUpdateRibbonGeometry ==
    \E points \in UNION {[1..n -> RibbonPoints] : n \in 1..3},
       strokeWidth \in RibbonWidths :
        /\ ribbonSource' = "updateRibbonGeometry"
        /\ ribbonPoints' = points
        /\ ribbonHalfWidth' = strokeWidth
        /\ ribbonPositions' = ribbonPositions_of(points, strokeWidth)
        /\ UNCHANGED <<laterButRibbon, recoverVars, chunkVars, fitVars, geomVars,
                       smoothVars, liveVars, storeVars>>

InitRibbon ==
    /\ InitStore /\ InitLive /\ IdleChunks /\ IdleFit /\ IdleGeom /\ IdleSmooth
    /\ IdleRecover /\ IdleButRibbon
    /\ IdleRibbon

NextRibbon ==
    \/ RibbonStartStroke
    \/ RibbonAddPoint
    \/ RibbonUpdateRibbonGeometry

SpecRibbon == InitRibbon /\ [][NextRibbon]_vars

\* ------------------------------------------------------------------------
\* VR drawing (VRPenController, VRDrawingManager and the XR frame loop)
\* ------------------------------------------------------------------------

\* What a handler of the drawing manager has called so far.
called(manager, names) == [manager EXCEPT !.calls = @ \o names]

\* startStroke(worldPoint)
vrStartStroke(manager) ==
    called([manager EXCEPT !.isDrawing = TRUE],
           <<"startStroke">> \o (IF manager.callbacks THEN <<"onDrawStart">> ELSE <<>>))

\* addStrokePoint(worldPoint); tooSoon: less than minTimeBetweenPoints
\* since the last point.
vrAddStrokePoint(manager, tooSoon) ==
    IF ~manager.isDrawing \/ tooSoon THEN manager
    ELSE called(manager,
                <<"addPoint">> \o (IF manager.callbacks THEN <<"onDrawMove">> ELSE <<>>))

\* endStroke(); callbackThrows: the draw-end callback ends with a throw.
vrEndStroke(manager, callbackThrows) ==
    IF ~manager.isDrawing THEN manager
    ELSE LET ended == called([manager EXCEPT !.isDrawing = FALSE], <<"endStroke">>)
         IN  IF manager.callbacks
                 THEN [called(ended, <<"onDrawEnd">>) EXCEPT !.threw = callbackThrows]
             ELSE ended

\* The callback given to vrPenController.onRelease.
vrOnRelease(manager, callbackThrows) ==
    IF manager.isDrawing THEN vrEndStroke(manager, callbackThrows) ELSE manager

\* update(deltaTime): a throw of endStroke leaves the switch before the
\* assignment to this.state.
vrUpdate(manager, isPenGrabbed, isPenTouching, tooSoon, callbackThrows) ==
    IF manager.state = "IDLE" THEN
        IF isPenGrabbed /\ isPenTouching
            THEN [vrStartStroke(manager) EXCEPT !.state = "DRAWING"]
        ELSE IF isPenGrabbed THEN [manager EXCEPT !.state = "GRABBED_NOT_DRAWING"]
        ELSE manager
    ELSE IF manager.state = "GRABBED_NOT_DRAWING" THEN
        IF isPenTouching
            THEN [vrStartStroke(manager) EXCEPT !.state = "DRAWING"]
        ELSE IF ~isPenGrabbed THEN [manager EXCEPT !.state = "IDLE"]
        ELSE manager
    ELSE
        IF ~isPenGrabbed \/ ~isPenTouching
            THEN LET ended == vrEndStroke(manager, callbackThrows)
                 IN  IF ended.threw THEN ended
                     ELSE [ended EXCEPT !.state = IF isPenGrabbed
                                                      THEN "GRABBED_NOT_DRAWING"
                                                  ELSE "IDLE"]
        ELSE vrAddStrokePoint(manager, tooSoon)

\* dispose(): the callbacks are cleared unless endStroke threw.
vrDispose(manager, callbackThrows) ==
    LET ended == IF manager.isDrawing THEN vrEndStroke(manager, callbackThrows)
                 ELSE manager
    IN  IF ended.threw THEN ended ELSE [ended EXCEPT !.callbacks = FALSE]

\* VRPenController.update(controllerGrips, deltaTime), grabPen and
\* releasePen: the pen after the call, and whether the release callback ran.
penUpdate(p, isGripPressed, hasControllerGrip) ==
    IF isGripPressed /\ ~p.wasGripPressed /\ ~p.isGrabbed THEN
        [pen |-> IF hasControllerGrip
                     THEN [isGrabbed |-> TRUE, wasGripPressed |-> TRUE, parent |-> "grip"]
                 ELSE [p EXCEPT !.wasGripPressed = TRUE],
         released |-> FALSE]
    ELSE IF ~isGripPressed /\ p.wasGripPressed /\ p.isGrabbed THEN
        [pen |-> [isGrabbed |-> FALSE, wasGripPressed |-> FALSE, parent |-> "scene"],
         released |-> p.parent # "scene"]
    ELSE [pen |-> [p EXCEPT !.wasGripPressed = isGripPressed], released |-> FALSE]

\* The history of the renderer calls after a handler's calls.
RECURSIVE openAfter(_, _)
openAfter(open, calls) ==
    IF calls = <<>> THEN open
    ELSE openAfter(IF Head(calls) = "startStroke" THEN TRUE
                   ELSE IF Head(calls) = "endStroke" THEN FALSE
                   ELSE open, Tail(calls))

RECURSIVE drawEndsAfter(_, _)
drawEndsAfter(n, calls) ==
    IF calls = <<>> THEN n
    ELSE drawEndsAfter(IF Head(calls) = "startStroke" THEN 0
                       ELSE IF Head(calls) = "onDrawEnd" THEN Min(n + 1, 2)
                       ELSE n, Tail(calls))

count(calls, name) == Cardinality({k \in 1..Len(calls) : calls[k] = name})

\* A handler of the session ran and left the manager as given.
vrRan(handler, manager) ==
    /\ dm' = Some(manager)
    /\ vrLast' = handler
    /\ vrOpen' = openAfter(vrOpen, manager.calls)
    /\ vrDrawEnds' = drawEndsAfter(vrDrawEnds, manager.calls)
    /\ vrStrokes' = vrStrokes + count(manager.calls, "startStroke")
    /\ vrStrokes' <= MaxVRStrokes

\* The draw-end callback of setupVRDrawingCallbacks throws when it creates
\* the stroke in debug mode; enough: the stroke has the points for it.
drawEndThrows(enough) == vrDebugMode /\ enough

vrOthers ==
    <<laterButVR, recoverVars, chunkVars, fitVars, geomVars, smoothVars, liveVars,
      storeVars>>

\* enterVRMode: a pen controller, a drawing manager listening to it, the
\* draw callbacks registered, the frame loop started.
VREnter ==
    \E debug \in BOOLEAN :
        /\ ~vrActive
        /\ vrActive' = TRUE
        /\ vrLoop' = "running"
        /\ vrPhase' = "pen"
        /\ vrDebugMode' = debug
        /\ pen' = Some([isGrabbed |-> FALSE, wasGripPressed |-> FALSE, parent |-> "scene"])
        /\ penTouching' = FALSE
        /\ vrRan("enterVRMode", [state |-> "IDLE", isDrawing |-> FALSE, callbacks |-> TRUE,
                                 calls |-> <<>>, threw |-> FALSE])
        /\ UNCHANGED vrOthers

\* The first half of a frame: vrPenController.update, with the release
\* callback of the drawing manager inside it.  A throw of that callback
\* leaves update before wasGripPressed is written and ends the frame.
VRPenUpdate ==
    \E isGripPressed \in BOOLEAN, hasControllerGrip \in BOOLEAN, touching \in BOOLEAN,
       enough \in BOOLEAN, goesOn \in BOOLEAN :
        LET updated == penUpdate(pen[1], isGripPressed, hasControllerGrip)
            idle == [dm[1] EXCEPT !.calls = <<>>, !.threw = FALSE]
            manager == IF updated.released THEN vrOnRelease(idle, drawEndThrows(enough))
                       ELSE idle
        IN  /\ vrActive /\ vrLoop = "running" /\ vrPhase = "pen"
            /\ pen' = Some(IF manager.threw
                               THEN [updated.pen EXCEPT !.wasGripPressed = pen[1].wasGripPressed]
                           ELSE updated.pen)
            /\ penTouching' = touching
            /\ vrPhase' = IF manager.threw THEN "pen" ELSE "drawing"
            /\ vrLoop' = IF manager.threw /\ ~goesOn THEN "stopped" ELSE "running"
            /\ vrRan("penUpdate", manager)
            /\ UNCHANGED <<vrActive, vrDebugMode>>
            /\ UNCHANGED vrOthers

\* The second half of a frame: vrDrawingManager.update.
VRDrawingUpdate ==
    \E tooSoon \in BOOLEAN, enough \in BOOLEAN, goesOn \in BOOLEAN :
        LET idle == [dm[1] EXCEPT !.calls = <<>>, !.threw = FALSE]
            manager == vrUpdate(idle, pen[1].isGrabbed, penTouching, tooSoon,
                                drawEndThrows(enough))
        IN  /\ vrActive /\ vrLoop = "running" /\ vrPhase = "drawing"
            /\ vrPhase' = "pen"
            /\ vrLoop' = IF manager.threw /\ ~goesOn THEN "stopped" ELSE "running"
            /\ vrRan("update", manager)
            /\ UNCHANGED <<vrActive, vrDebugMode, pen, penTouching>>
            /\ UNCHANGED vrOthers

\* exitVRMode, between two frames: vrDrawingManager.dispose(), then both
\* objects dropped; a throw of dispose leaves them in place.
VRExit ==
    \E enough \in BOOLEAN :
        LET idle == [dm[1] EXCEPT !.calls = <<>>, !.threw = FALSE]
            manager == vrDispose(idle, drawEndThrows(enough))
        IN  /\ vrActive /\ vrPhase = "pen"
            /\ vrActive' = manager.threw
            /\ vrLoop' = "stopped"
            /\ vrRan("dispose", manager)
            /\ UNCHANGED <<vrPhase, vrDebugMode, pen, penTouching>>
            /\ UNCHANGED vrOthers

InitVR ==
    /\ InitStore /\ InitLive /\ IdleChunks /\ IdleFit /\ IdleGeom /\ IdleSmooth
    /\ IdleRecover /\ IdleButVR
    /\ IdleVR

NextVR ==
    \/ VREnter
    \/ VRPenUpdate
    \/ VRDrawingUpdate
    \/ VRExit

SpecVR == InitVR /\ [][NextVR]_vars

\* ------------------------------------------------------------------------
\* InputManager: mouse and touch events, setDrawingEnabled
\* ------------------------------------------------------------------------

\* onDrawStart calls awaiting an onDrawEnd after the calls of a handler.
RECURSIVE openStartsAfter(_, _)
openStartsAfter(n, calls) ==
    IF calls = <<>> THEN n
    ELSE openStartsAfter(IF Head(calls) = "onDrawStart" THEN n + 1
                         ELSE IF Head(calls) = "onDrawEnd" THEN Max(n - 1, 0)
                         ELSE n, Tail(calls))

\* A handler ran and called the given draw callbacks (all three are set by
\* setupInputCallbacks before any event).
imRan(handler, calls) ==
    /\ imLast' = handler
    /\ imCalls' = calls
    /\ imOpen' = openStartsAfter(imOpen, calls)
    /\ imOpen' <= MaxOpenStarts

imOthers ==
    <<laterButInput, recoverVars, chunkVars, fitVars, geomVars, smoothVars, liveVars,
      storeVars>>

\* onMouseDown(event); hit: the ray through the pointer meets the whiteboard.
InputMouseDown ==
    \E button \in 0..2, hit \in BOOLEAN :
        /\ IF button = 0 /\ imDrawingEnabled
               THEN /\ imIsDrawing' = (hit \/ imIsDrawing)
                    /\ imRan("onMouseDown", IF hit THEN <<"onDrawStart">> ELSE <<>>)
                    /\ UNCHANGED imIsPanning
           ELSE IF button = 2
               THEN /\ imIsPanning' = TRUE
                    /\ imRan("onMouseDown", <<>>)
                    /\ UNCHANGED imIsDrawing
           ELSE /\ imRan("onMouseDown", <<>>)
                /\ UNCHANGED <<imIsDrawing, imIsPanning>>
        /\ UNCHANGED imDrawingEnabled
        /\ UNCHANGED imOthers

\* onMouseMove(event); isOverCanvas: the pointer is inside the canvas
\* rectangle.
InputMouseMove ==
    \E hit \in BOOLEAN, isOverCanvas \in BOOLEAN :
        /\ IF imIsDrawing
               THEN IF ~hit
                        THEN IF isOverCanvas
                                 THEN /\ imIsDrawing' = FALSE
                                      /\ imRan("onMouseMove", <<"onDrawEnd">>)
                             ELSE /\ imRan("onMouseMove", <<>>)
                                  /\ UNCHANGED imIsDrawing
                    ELSE /\ imRan("onMouseMove", <<"onDrawMove">>)
                         /\ UNCHANGED imIsDrawing
           ELSE /\ imRan("onMouseMove", <<>>)
                /\ UNCHANGED imIsDrawing
        /\ UNCHANGED <<imIsPanning, imDrawingEnabled>>
        /\ UNCHANGED imOthers

\* onMouseUp(event), the listener of mouseup and of mouseleave.
InputMouseUp ==
    /\ imIsDrawing' = FALSE
    /\ imIsPanning' = FALSE
    /\ imRan("onMouseUp", IF imIsDrawing THEN <<"onDrawEnd">> ELSE <<>>)
    /\ UNCHANGED imDrawingEnabled
    /\ UNCHANGED imOthers

\* onTouchStart(event); touches: event.touches.length.
InputTouchStart ==
    \E touches \in 0..2, hit \in BOOLEAN :
        /\ IF touches > 0 /\ hit
               THEN /\ imIsDrawing' = TRUE
                    /\ imRan("onTouchStart", <<"onDrawStart">>)
           ELSE /\ imRan("onTouchStart", <<>>)
                /\ UNCHANGED imIsDrawing
        /\ UNCHANGED <<imIsPanning, imDrawingEnabled>>
        /\ UNCHANGED imOthers

\* onTouchMove(event)
InputTouchMove ==
    \E touches \in 0..2, hit \in BOOLEAN :
        /\ imRan("onTouchMove",
                 IF imIsDrawing /\ touches > 0 /\ hit THEN <<"onDrawMove">> ELSE <<>>)
        /\ UNCHANGED <<imIsDrawing, imIsPanning, imDrawingEnabled>>
        /\ UNCHANGED imOthers

\* onTouchEnd(event)
InputTouchEnd ==
    /\ imIsDrawing' = FALSE
    /\ imRan("onTouchEnd", IF imIsDrawing THEN <<"onDrawEnd">> ELSE <<>>)
    /\ UNCHANGED <<imIsPanning, imDrawingEnabled>>
    /\ UNCHANGED imOthers

\* setDrawingEnabled(enabled): the tool change of the UI, entering and
\* leaving VR.
SetDrawingEnabled ==
    \E enabled \in BOOLEAN :
        /\ imDrawingEnabled' = enabled
        /\ imIsDrawing' = (enabled /\ imIsDrawing)
        /\ imRan(IF enabled THEN "setDrawingEnabled(true)" ELSE "setDrawingEnabled(false)",
                 IF ~enabled /\ imIsDrawing THEN <<"onDrawEnd">> ELSE <<>>)
        /\ UNCHANGED imIsPanning
        /\ UNCHANGED imOthers

InitInput ==
    /\ InitStore /\ InitLive /\ IdleChunks /\ IdleFit /\ IdleGeom /\ IdleSmooth
    /\ IdleRecover /\ IdleButInput
    /\ IdleInput

NextInput ==
    \/ InputMouseDown
    \/ InputMouseMove
    \/ InputMouseUp
    \/ InputTouchStart
    \/ InputTouchMove
    \/ InputTouchEnd
    \/ SetDrawingEnabled

SpecInput == InitInput /\ [][NextInput]_vars

\* ------------------------------------------------------------------------
\* Claims
\* ------------------------------------------------------------------------

\* C2: for every point list P of n >= 4 points createSegment returns exactly
\* n - 1 segments, and segment i (0-based) has p0 = P[i] and p3 = P[i+1]: the
\* curve passes through every input point and consecutive segments share
\* their joint knot.
C2_SegmentsInterpolatePoints ==
    (fitDone /\ Len(fitPoints) >= 4) =>
        /\ Len(fitSegments) = Len(fitPoints) - 1
        /\ \A i \in 1..(Len(fitPoints) - 1) :
              /\ fitSegments[i].p0 = fitPoints[i]
              /\ fitSegments[i].p3 = fitPoints[i + 1]

C2_Witness ==
    /\ fitDone
    /\ Len(fitPoints) = 12
    /\ Len(fitSegments) = 11
    /\ fitSegments[11].p3 = fitPoints[12]
    /\ fitPoints[11] # fitPoints[12]

\* C3: for every point list of n >= 4 points the index ranges
\* [startIndex, endIndex) of the chunks createChunks returns cover every
\* index 0..n-1: no input point lies outside all chunks.
C3_ChunksCoverEveryIndex ==
    (chkDone /\ Len(chkPoints) >= 4) =>
        \A i \in 0..(Len(chkPoints) - 1) :
            \E k \in 1..Len(chkChunks) :
                /\ chkChunks[k].startIndex <= i
                /\ i < chkChunks[k].endIndex

C3_Witness ==
    /\ chkDone
    /\ Len(chkPoints) = 22
    /\ Len(chkChunks) = 3
    /\ chkChunks[3].endIndex = 22

\* C4: chunk k (k = 0, 1, ...) spans [k*(W-O), min(k*(W-O)+W, n)) with W = 12
\* and O = 3 and holds exactly that slice of the points; every emitted chunk
\* has between 4 and W points; each chunk starts O points before the end of
\* the chunk before it, the final chunk included; 20 points give exactly
\* [0,12) and [9,20).
C4_ChunkWindowPolicy ==
    chkDone =>
        LET n == Len(chkPoints)
            c == chkChunks
        IN  /\ \A k \in 1..Len(c) :
                  /\ c[k].startIndex = (k - 1) * (12 - 3)
                  /\ c[k].endIndex = Min((k - 1) * (12 - 3) + 12, n)
                  /\ c[k].points = SubSeq(chkPoints, c[k].startIndex + 1, c[k].endIndex)
                  /\ Len(c[k].points) >= 4
                  /\ Len(c[k].points) <= 12
            /\ \A k \in 1..(Len(c) - 1) :
                  c[k + 1].startIndex = c[k].endIndex - 3
            /\ (n = 20) =>
                  /\ Len(c) = 2
                  /\ c[1].startIndex = 0 /\ c[1].endIndex = 12
                  /\ c[2].startIndex = 9 /\ c[2].endIndex = 20

C4_Witness ==
    /\ chkDone
    /\ Len(chkPoints) = 20
    /\ Len(chkChunks) = 2
    /\ chkChunks[2].startIndex = chkChunks[1].endIndex - 3

\* The number of caps asked of createChunkGeometry: 0, 1 or 2.
geoCapCount ==
    (IF geoStartCap = Null THEN 0 ELSE 1) + (IF geoEndCap = Null THEN 0 ELSE 1)

\* C6: a chunk of S segments tessellated at `subdivisions` steps with c end
\* caps gets exactly S * subdivisions * 2 + 4 * c vertices.
C6_VertexCountLaw ==
    geoDone =>
        geoFacts[1].counts.positions =
            Len(geoSegments) * calculateSubdivisions(geoCamera) * 2 + 4 * geoCapCount

C6_Witness ==
    /\ geoDone
    /\ geoCapCount = 2
    /\ Len(geoSegments) = 5
    /\ calculateSubdivisions(geoCamera) = 30
    /\ geoFacts[1].counts.positions = 308

\* C7 as claimed: the index buffer of a chunk of S segments has exactly
\* S * (subdivisions - 1) * 6 indices, also when the chunk carries end caps.
C7_IndexCountWithoutCaps ==
    geoDone =>
        geoFacts[1].indexCount =
            Len(geoSegments) * (calculateSubdivisions(geoCamera) - 1) * 6

\* C7 as amended: the index buffer of a chunk of S segments with c end caps
\* has exactly S * (subdivisions - 1) * 6 + 6 * c indices: every cap adds the
\* two triangles of its quad.
C7_IndexCountLaw ==
    geoDone =>
        geoFacts[1].indexCount =
            Len(geoSegments) * (calculateSubdivisions(geoCamera) - 1) * 6
                + 6 * geoCapCount

C7_Witness ==
    /\ geoDone
    /\ geoCapCount = 1
    /\ Len(geoSegments) = 3
    /\ calculateSubdivisions(geoCamera) = 20
    /\ geoFacts[1].indexCount = 348

\* C1: createStroke called with fewer than 4 points returns null and changes
\* nothing: no material or mesh is created (no id is taken) or attached to
\* the whiteboard, the stroke store is unchanged, nothing is disposed and
\* the shared counter keeps its value.
C1_ShortListChangesNothing ==
    [][ (call'.createStroke # "none" /\ call'.nPoints < 4) =>
            /\ call'.createStroke = "null"
            /\ strokes' = strokes
            /\ images' = images
            /\ whiteboard' = whiteboard
            /\ nextId' = nextId
            /\ disposed' = disposed
            /\ globalZIndex' = globalZIndex ]_vars

C1_Witness ==
    /\ call.handler = "createStroke"
    /\ call.createStroke = "null"
    /\ call.nPoints = 3
    /\ Len(strokes) = 1
    /\ globalZIndex = 1

\* The cap vertices of a mesh, in buffer order (four per cap).
capsOf(mesh) == mesh.geometry.capVertices

\* C5: right after createStroke and after every updateStrokeGeometry the
\* stroke's meshes carry exactly one start cap and one end cap: the first
\* mesh carries the start cap at the stroke's current points[0], the last
\* mesh the end cap at its current points[last], no mesh in between carries
\* a cap, and a single mesh carries both.
C5_OneStartCapOneEndCap ==
    \A k \in 1..Len(strokes) :
        strokes[k].id \in rebuilt =>
            LET s == strokes[k]
                m == s.meshes
                n == Len(m)
                first == capsOf(m[1])
                last == capsOf(m[n])
            IN  /\ n >= 1
                /\ Len(first) = (IF n = 1 THEN 8 ELSE 4)
                /\ Len(last) = (IF n = 1 THEN 8 ELSE 4)
                /\ \A i \in 1..4 : first[i].position = s.points[1]
                /\ \A i \in (Len(last) - 3)..Len(last) :
                       last[i].position = s.points[Len(s.points)]
                /\ \A j \in 2..(n - 1) : Len(capsOf(m[j])) = 0

C5_Witness ==
    /\ call.handler = "stopDragging"
    /\ \E k \in 1..Len(strokes) :
          /\ strokes[k].id \in rebuilt
          /\ Len(strokes[k].meshes) = 3
          /\ strokes[k].points[1] = Vector3(400, 101, 0)
          /\ capsOf(strokes[k].meshes[1])[1].position = Vector3(400, 101, 0)
          /\ Len(capsOf(strokes[k].meshes[2])) = 0

\* C8: for every list of 1 point or more smoothPoints returns a list of the
\* same length whose first and last points are the input's; every point in
\* between is the average of the input over the window i-1 .. i+1.
C8_SmoothingKeepsEndpoints ==
    (smDone /\ Len(smPoints) >= 1) =>
        LET n == Len(smPoints)
        IN  /\ Len(smSmoothed) = n
            /\ smSmoothed[1] = smPoints[1]
            /\ smSmoothed[n] = smPoints[n]
            /\ n >= 3 =>
                  \A i \in 2..(n - 1) :
                      smSmoothed[i] =
                          Vector3(RoundDiv(smPoints[i - 1].x + smPoints[i].x
                                               + smPoints[i + 1].x, 3),
                                  RoundDiv(smPoints[i - 1].y + smPoints[i].y
                                               + smPoints[i + 1].y, 3),
                                  RoundDiv(smPoints[i - 1].z + smPoints[i].z
                                               + smPoints[i + 1].z, 3))

C8_Witness ==
    /\ smDone
    /\ Len(smPoints) = 4
    /\ smPoints[3] # smPoints[4]
    /\ smSmoothed[4] = smPoints[4]
    /\ smSmoothed[3] # smPoints[3]
    /\ smSmoothed[2] # smPoints[2]

\* The list density filtering produced for the last gesture: the list
\* handed to createStroke when filterDensePoints ran, else endStroke's list.
filteredList == IF simplified # Null THEN simplified[1] ELSE drawn[1]

\* C9 as claimed: for every gesture of 2 samples or more the filtered list
\* starts with the first sample, ends with the last sample and has 2 points
\* or more, also when samples coincide.
C9_FilteredHasTwoPoints ==
    (drawn # Null /\ Len(samples) >= 2) =>
        /\ Len(filteredList) >= 2
        /\ filteredList[1] = samples[1]
        /\ filteredList[Len(filteredList)] = samples[Len(samples)]

\* C9 as amended: for every gesture of 2 samples or more the filtered list
\* is not empty, starts with the first sample and ends with a point equal to
\* the last sample; it is a single point exactly when no sample lies 2
\* pixels or more from the first and the last sample equals the first
\* (endStroke does not push a last point equal to the last kept one), and
\* has 2 points or more otherwise.
C9_FilteredKeepsEnds ==
    (drawn # Null /\ Len(samples) >= 2) =>
        LET n == Len(samples)
            first == worldToScreen(samples[1], sceneCamera[1])
        IN  /\ Len(filteredList) >= 1
            /\ filteredList[1] = samples[1]
            /\ filteredList[Len(filteredList)] = samples[n]
            /\ (Len(filteredList) = 1) <=>
                   /\ samples[n] = samples[1]
                   /\ \A k \in 2..n :
                          ~pixelFilterKeeps(worldToScreen(samples[k], sceneCamera[1]),
                                            first)

C9_Witness ==
    /\ drawn # Null
    /\ Len(samples) = 5
    /\ simplified # Null
    /\ Len(simplified[1]) < Len(drawn[1])
    /\ Len(drawn[1]) < Len(samples)
    /\ samples[5] # samples[1]
    /\ filteredList[Len(filteredList)] = samples[5]

\* Every stored stroke and image, as [ref, zIndex].
storedZ(strokeList, imageList) ==
    {[ref |-> Ref(strokeList[k]), zIndex |-> strokeList[k].zIndex] :
         k \in 1..Len(strokeList)}
        \cup {[ref |-> Ref(imageList[k]), zIndex |-> imageList[k].zIndex] :
                  k \in 1..Len(imageList)}

\* No two stored objects share a z-index, every z-index is below the
\* counter, and every mesh renders at its object's z-index.
ZOrderConsistent ==
    /\ \A a \in storedZ(strokes, images) : a.zIndex >= 0 /\ a.zIndex < globalZIndex
    /\ \A a, b \in storedZ(strokes, images) : a.zIndex = b.zIndex => a.ref = b.ref
    /\ \A k \in 1..Len(strokes) : \A m \in 1..Len(strokes[k].meshes) :
           strokes[k].meshes[m].renderOrder = strokes[k].zIndex
    /\ \A k \in 1..Len(images) : images[k].mesh.renderOrder = images[k].zIndex

\* The counter never goes back, and a z-index assigned by a step (to a new
\* object or to one brought to the front) is at or above the counter's
\* value before the step, hence above every z-index assigned before.
ZAssignedAboveAll ==
    /\ globalZIndex' >= globalZIndex
    /\ \A a \in storedZ(strokes', images') :
           a \notin storedZ(strokes, images) => a.zIndex >= globalZIndex

\* C10: under any interleaving of stroke creations, image creations and
\* bringToFront calls every newly assigned z-index is strictly greater than
\* every z-index assigned before, so no two live strokes or images share a
\* z-index, and every mesh of a stroke (and of an image) has renderOrder
\* equal to its owner's z-index.
C10_MonotoneZOrder == []ZOrderConsistent /\ [][ZAssignedAboveAll]_vars

C10_Witness ==
    /\ isDragging
    /\ Len(images) = 1
    /\ \E k \in 1..Len(strokes) :
          /\ strokes[k].zIndex = globalZIndex - 1
          /\ strokes[k].zIndex > images[1].zIndex
          /\ strokes[k].zIndex >= 2
          /\ Len(strokes[k].meshes) = 3
          /\ strokes[k].meshes[3].renderOrder = strokes[k].zIndex

\* C16: curve fitting never alters or invents z.  For every segment that
\* createSegment returns, p0 and p3 are the input points at the segment's
\* two ends (z included), the z of p1 and the z of p2 each equal the z of
\* p0 or of p3 of that same segment, and the input list is what it was
\* before the call.
C16_FitKeepsZ ==
    fitDone =>
        /\ \E n \in 0..MaxFitLen, a \in 0..1, b \in 0..2, c \in 0..1 :
               fitPoints = FitPoints(n, a, b, c)
        /\ \A i \in 1..Len(fitSegments) :
               /\ fitSegments[i].p0.z = fitPoints[i].z
               /\ fitSegments[i].p3.z = fitPoints[i + 1].z
               /\ fitSegments[i].p1.z \in {fitSegments[i].p0.z, fitSegments[i].p3.z}
               /\ fitSegments[i].p2.z \in {fitSegments[i].p0.z, fitSegments[i].p3.z}

C16_Witness ==
    /\ fitDone
    /\ Len(fitSegments) = 11
    /\ fitPoints[4].z = 1 /\ fitPoints[5].z = 2 /\ fitPoints[6].z = 0
    /\ fitSegments[5].p1.z = 2 /\ fitSegments[5].p2.z = 2
    /\ fitSegments[11].p1.z = fitPoints[12].z
    /\ fitSegments[11].p1.z # fitPoints[11].z
    /\ fitSegments[5].p1.x # fitPoints[5].x

\* Every interior point of the list is the midpoint of its two neighbours:
\* the points are evenly spaced along one line.
evenlySpaced(list) ==
    \A i \in 2..(Len(list) - 1) :
        /\ 2 * list[i].x = list[i - 1].x + list[i + 1].x
        /\ 2 * list[i].y = list[i - 1].y + list[i + 1].y
        /\ 2 * list[i].z = list[i - 1].z + list[i + 1].z

C19_VisibleMeshesAreCurrent ==
    \A k \in 1..Len(strokes) :
        LET s == strokes[k]
            m == s.meshes
            n == Len(m)
        IN  n >= 1 =>
                /\ m[1].visible =>
                       \A i \in 1..4 : capsOf(m[1])[i].position = s.points[1]
                /\ m[n].visible =>
                       \A i \in (Len(capsOf(m[n])) - 3)..Len(capsOf(m[n])) :
                           capsOf(m[n])[i].position = s.points[Len(s.points)]

\* C13: setDebugMode toggles the per-point markers.  After setDebugMode(
\* stroke, true) for every stored stroke (the debug button switched on) and
\* after createStroke in debug mode the operation has completed normally and
\* the stroke has one marker per stroke point; after setDebugMode(stroke,
\* false) no stored stroke has a marker.
C13_DebugModeTogglesMarkers ==
    /\ (call.handler = "onDebugModeChange" /\ debugMode) =>
           /\ ~call.threw
           /\ \A k \in 1..Len(strokes) :
                  Len(strokes[k].debugPoints) = Len(strokes[k].points)
    /\ (call.handler = "createStroke" /\ debugMode /\ call.nPoints >= 4) =>
           /\ ~call.threw
           /\ call.createStroke = "stroke"
           /\ Len(strokes[Len(strokes)].debugPoints)
                  = Len(strokes[Len(strokes)].points)
    /\ (call.handler = "onDebugModeChange" /\ ~debugMode) =>
           /\ ~call.threw
           /\ \A k \in 1..Len(strokes) : Len(strokes[k].debugPoints) = 0

\* C14: on pointer-up the only case in which no stroke is created is a
\* captured sequence of fewer than 4 raw points: whenever endStroke has
\* returned at least 4 points, onDrawEnd has created a non-null stroke and
\* the stroke is in the store.
C14_FourPointsGiveAStroke ==
    (call.handler = "onDrawEnd" /\ drawn # Null /\ Len(drawn[1]) >= 4) =>
        /\ call.createStroke = "stroke"
        /\ Len(strokes) >= 1
        /\ strokes[Len(strokes)].id \in rebuilt

\* The square of the pixel distance between two world points on the canvas
\* (fixed-point pixels).
pixelDistanceSquared(a, b) ==
    LET sa == worldToScreen(a, sceneCamera[1])
        sb == worldToScreen(b, sceneCamera[1])
    IN  (sa.x - sb.x) * (sa.x - sb.x) + (sa.y - sb.y) * (sa.y - sb.y)

\* `short` is `long` with some of its members left out, the order kept.
RECURSIVE IsSubsequence(_, _)
IsSubsequence(short, long) ==
    IF short = <<>> THEN TRUE
    ELSE IF long = <<>> THEN FALSE
    ELSE IF Head(short) = Head(long) THEN IsSubsequence(Tail(short), Tail(long))
    ELSE IsSubsequence(short, Tail(long))

\* An addPoint step appended its sample to the fit list only from a pixel
\* distance strictly above the threshold.
AddPointKeepsOnlyFarther ==
    (call'.handler = "onDrawMove" /\ srPoints' # srPoints) =>
        pixelDistanceSquared(srAllPoints'[Len(srAllPoints')], srPoints[Len(srPoints)])
            > Fix(minPixelDistance) * Fix(minPixelDistance)

\* C17 as stated: the fit list receives a sample only if its screen-space
\* distance from the last appended fit point exceeds the 2-pixel threshold;
\* a sample at exactly the threshold distance is not appended.
C17_FitListStrictThreshold == [][AddPointKeepsOnlyFarther]_vars

\* An addPoint step: the display list grows by the sample, the fit list by
\* the sample exactly when the sample lies at least 2 pixels from the last
\* appended fit point, and the fit list is a subsequence of the display list.
AddPointStep ==
    call'.handler = "onDrawMove" =>
        LET sample == srAllPoints'[Len(srAllPoints')]
            far == pixelDistanceSquared(sample, srPoints[Len(srPoints)])
                       >= Fix(minPixelDistance) * Fix(minPixelDistance)
        IN  /\ Len(srAllPoints') = Len(srAllPoints) + 1
            /\ srAllPoints' = Append(srAllPoints, sample)
            /\ srPoints' = IF far THEN Append(srPoints, sample) ELSE srPoints
            /\ IsSubsequence(srPoints', srAllPoints')

\* C17, amended: while a live stroke is active the display list grows by
\* exactly one point per addPoint call, the fit list receives the sample if
\* and only if its screen-space distance from the last appended fit point is
\* at least the 2-pixel threshold (a sample at exactly 2 pixels is appended,
\* a closer one is not), and the fit list is always an order-preserving
\* subsequence of the display list.
C17_FitListAtLeastThreshold ==
    [][AddPointStep]_vars /\ [](IsSubsequence(srPoints, srAllPoints))

C17_Witness ==
    /\ call.handler = "onDrawMove"
    /\ srAllPoints = <<Vector3(0, 0, 0), Vector3(30, 0, 0), Vector3(64, 0, 0),
                       Vector3(90, 0, 0)>>
    /\ srPoints = <<Vector3(0, 0, 0), Vector3(64, 0, 0)>>
    /\ pixelDistanceSquared(Vector3(64, 0, 0), Vector3(0, 0, 0))
           = Fix(minPixelDistance) * Fix(minPixelDistance)

\* C20: for any sequence of startStroke, addPoint and endStroke calls on the
\* live preview, once endStroke has run every geometry and material the
\* preview allocated for its ribbon mesh and its two cap meshes has been
\* disposed exactly once, and no preview mesh remains attached to the scene.
C20_PreviewReleasedExactlyOnce ==
    call.handler = "onDrawEnd" =>
        /\ \A a \in allocated :
               a.type = "preview" => CopiesIn(a.res, disposed) = 1
        /\ scene = {}

\* C11: over any sequence of createStroke, updateStrokeGeometry, deleteStroke
\* and deleteStrokes calls (the same stroke deleted twice included), once a
\* stroke has been deleted every chunk geometry ever allocated for it and
\* its material have each been disposed exactly once, and none of its meshes
\* remains attached to the container.  The deleted strokes are the held ones.
C11_DeletedStrokeReleasedOnce ==
    \A k \in 1..Len(held) :
        \A a \in allocated :
            (a.type = "stroke" /\ a.owner = held[k].id) =>
                /\ CopiesIn(a.res, disposed) = 1
                /\ a.res.kind = "geometry" => a.res.of \notin whiteboard

\* The stroke object of that id among those the caller can name.
knownStroke(strokeList, heldList, id) ==
    objectOf([type |-> "stroke", id |-> id], strokeList \o heldList, <<>>)

\* An updateStrokeGeometry step, before being the stroke object before the
\* call and after the one it left.
FullRebuild(before, after) ==
    /\ after.points = before.points
    /\ \A m \in 1..Len(before.meshes) :
           /\ before.meshes[m].id \notin whiteboard'
           /\ CopiesIn(Disposed("geometry", before.meshes[m].id), disposed) = 0
           /\ CopiesIn(Disposed("geometry", before.meshes[m].id), disposed') = 1
           /\ \A n \in 1..Len(after.meshes) : after.meshes[n].id # before.meshes[m].id
    /\ Len(after.meshes) = Len(createChunks(after.points))
    /\ \A n \in 1..Len(after.meshes) :
           /\ after.meshes[n].id \in whiteboard'
           /\ after.meshes[n].id >= nextId
           /\ after.meshes[n].material = before.material
           /\ after.meshes[n].renderOrder = after.zIndex
           /\ CopiesIn(Disposed("geometry", after.meshes[n].id), disposed') = 0
    /\ \A m, n \in 1..Len(after.meshes) :
           after.meshes[m].id = after.meshes[n].id => m = n
    /\ capsOf(after.meshes[1])[1].position = after.points[1]
    /\ after.material = before.material
    /\ after.zIndex = before.zIndex
    /\ CopiesIn(Disposed("material", after.material), disposed')
           = CopiesIn(Disposed("material", before.material), disposed)

\* C12: updateStrokeGeometry(stroke) is a full rebuild.  Afterwards every
\* previous chunk mesh is detached from its parent with its geometry
\* disposed exactly once, stroke.meshes holds exactly one newly built mesh
\* per chunk window of the stroke's current points, each attached to the
\* container, using the stroke's existing material (which the call neither
\* disposes nor replaces) and with renderOrder equal to the stroke's z-index.
C12_UpdateIsFullRebuild ==
    [][call'.handler = "updateStrokeGeometry" =>
          \A id \in rebuilt' :
              FullRebuild(knownStroke(strokes, held, id),
                          knownStroke(strokes', held', id))]_vars

C12_Witness ==
    /\ call.handler = "updateStrokeGeometry"
    /\ Len(strokes) = 1
    /\ strokes[1].id \in rebuilt
    /\ Len(strokes[1].points) = 22
    /\ strokes[1].points[1] = Vector3(400, 101, 0)
    /\ Len(strokes[1].meshes) = 3
    /\ capsOf(strokes[1].meshes[1])[1].position = Vector3(400, 101, 0)
    /\ strokes[1].meshes[3].id \in whiteboard
    /\ CopiesIn(Disposed("geometry", 3), disposed) = 1
    /\ CopiesIn(Disposed("material", strokes[1].material), disposed) = 0
    /\ 3 \notin whiteboard

\* The segments createStroke counts for the chunks whose fit succeeds.
RECURSIVE fittedSegments(_, _, _)
fittedSegments(chunks, index, failed) ==
    IF ~(index < Len(chunks)) THEN 0
    ELSE (IF index \in failed THEN 0 ELSE Len(chunks[index + 1].points) - 1)
             + fittedSegments(chunks, index + 1, failed)

\* C15: a failed fit is recovered locally.  Matrix.inverse signals a matrix
\* that is not square or is singular (determinant 0) and no other;
\* createSegment returns an empty list for fewer than 4 points and when the
\* inversion signalled, and n - 1 segments otherwise; createStroke, on
\* getting an empty list for a chunk, creates no mesh for that chunk, still
\* processes the remaining chunks (one mesh each, attached, their segments
\* counted) and returns a non-null stroke, which is stored.
C15_FailedFitRecoveredLocally ==
    /\ recInverse # Null =>
           LET M == recC[1]
           IN  recInverse[1].ok <=>
                   /\ M.rows = M.cols
                   /\ M.data[1][1] * M.data[2][2] # M.data[1][2] * M.data[2][1]
    /\ fitDone =>
           /\ (fitSegments = <<>>) <=> (Len(fitPoints) < 4 \/ ~recInverse[1].ok)
           /\ fitSegments # <<>> => Len(fitSegments) = Len(fitPoints) - 1
    /\ call.handler = "createStroke" =>
           /\ call.createStroke = "stroke"
           /\ ~call.threw
           /\ Len(strokes) = 1
           /\ Len(strokes[1].meshes) = 3 - Cardinality(recFailed)
           /\ whiteboard = {strokes[1].meshes[k].id : k \in 1..Len(strokes[1].meshes)}
           /\ Cardinality(whiteboard) = 3 - Cardinality(recFailed)
           /\ strokes[1].segmentCount
                  = fittedSegments(createChunks(RecoverStroke), 0, recFailed)
           /\ (2 \notin recFailed) =>
                  capsOf(strokes[1].meshes[Len(strokes[1].meshes)])[1].position
                      = RecoverStroke[Len(RecoverStroke)]

C15_Witness ==
    /\ recFailed = {1}
    /\ recC[1].data = <<<<Fix(4), Fix(4)>>, <<Fix(4), Fix(4)>>>>
    /\ recInverse # Null /\ ~recInverse[1].ok
    /\ fitDone /\ Len(fitPoints) = 4 /\ fitSegments = <<>>
    /\ call.handler = "createStroke"
    /\ Len(strokes) = 1
    /\ Len(strokes[1].meshes) = 2
    /\ strokes[1].segmentCount = 14

\* C30: createChunks terminates for every finite point list, the empty list
\* and lists of fewer than 4 points included: every pass through the loop
\* body that does not leave the loop strictly increases startIdx, the body
\* runs at most Len(points) times (and at least once for a list that is not
\* empty), and the loop is left.
C30_CreateChunksTerminates ==
    /\ [][(~chkDone /\ ~chkDone') => loopStartIdx' > loopStartIdx]_vars
    /\ [](loopIterations <= Len(chkPoints))
    /\ [](chkDone => (loopIterations >= 1 <=> Len(chkPoints) >= 1))
    /\ [](chkDone => chkChunks = createChunks(chkPoints))
    /\ <>chkDone

C30_Witness ==
    /\ chkDone
    /\ Len(chkPoints) = 31
    /\ loopIterations = 4
    /\ loopStartIdx = 27
    /\ Len(chkChunks) = 4

\* round(20 * min(3 / viewHeight, 10)) in exact arithmetic, the view height
\* given in units of 1 / Scale: round(x) is floor(x + 1/2).
exactSubdivisions(viewHeight) ==
    IF 10 * viewHeight <= Fix(3) THEN 200
    ELSE (2 * 20 * Fix(3) + viewHeight) \div (2 * viewHeight)

\* C21: calculateSubdivisions returns
\* clamp(round(base * min(zoomFactor, max / base)), base, max) with base 20,
\* max 200 and zoomFactor = 3 / (camera.top - camera.bottom): for every
\* positive view height the result lies in 20..200, is 20 at default zoom
\* and when zoomed out, is 200 from 10x zoom upward, and is not smaller than
\* the result for any view zoomed in less; without a camera it is 20.
C21_SubdivisionsClamped ==
    subCount # Null =>
        IF geoCamera = Null THEN subCount[1] = 20
        ELSE LET viewHeight == geoCamera[1].top - geoCamera[1].bottom
             IN  /\ viewHeight > 0
                 /\ subCount[1] >= 20 /\ subCount[1] <= 200
                 /\ subCount[1] = Max(20, Min(exactSubdivisions(viewHeight), 200))
                 /\ viewHeight >= Fix(3) => subCount[1] = 20
                 /\ 10 * viewHeight <= Fix(3) => subCount[1] = 200
                 /\ subPrev # Null =>
                        /\ viewHeight <= subPrev[1].viewHeight
                               => subCount[1] >= subPrev[1].subdivisions
                        /\ viewHeight >= subPrev[1].viewHeight
                               => subCount[1] <= subPrev[1].subdivisions

C21_Witness ==
    /\ subCount = Some(200)
    /\ geoCamera # Null
    /\ 10 * (geoCamera[1].top - geoCamera[1].bottom) <= Fix(3)
    /\ subPrev # Null
    /\ subPrev[1].viewHeight = Fix(2)
    /\ subPrev[1].subdivisions = 30

\* C23: in every geometry built by createChunkGeometry the buffers are
\* mutually consistent: the per-vertex attribute arrays (position,
\* controlPoint1, controlPoint2, endPoint, segmentT, isEndCap, uv) hold the
\* same number of vertices; every index of the index buffer is a vertex
\* (0 <= index < vertex count) and the indices come in whole triangles; the
\* three vertices of a triangle carry the same segment (body) or the same
\* cap centre (cap), so no triangle bridges two segments or a segment and a
\* cap, and every segment and every cap has triangles; isEndCap is 0 or 1,
\* and 1 exactly on the 4 vertices of each cap quad, which follow the body.
C23_BuffersConsistent ==
    geoDone =>
        LET facts == geoFacts[1]
            buffers == geoBuffers[1]
            vertexCount == facts.counts.positions
            capCount == geoCapCount
            segmentOf(v) == [p0 |-> v.position, p1 |-> v.controlPoint1,
                             p2 |-> v.controlPoint2, p3 |-> v.endPoint]
        IN  /\ \A k \in DOMAIN facts.counts : facts.counts[k] = vertexCount
            /\ buffers.strayIndices = {}
            /\ buffers.looseIndices = 0
            /\ \A tri \in buffers.triangles :
                   /\ Cardinality(tri) = 1
                   /\ Null \notin tri
            /\ {segmentOf(v[1]) : v \in {w \in UNION buffers.triangles :
                                            w # Null /\ w[1].isEndCap = 0}}
                   = {geoSegments[s] : s \in 1..Len(geoSegments)}
            /\ {v[1].position : v \in {w \in UNION buffers.triangles :
                                          w # Null /\ w[1].isEndCap = 1}}
                   = {c[1] : c \in {geoStartCap, geoEndCap} \ {Null}}
            /\ buffers.flags \subseteq {0, 1}
            /\ buffers.flagged = (vertexCount - 4 * capCount)..(vertexCount - 1)
            /\ Cardinality(buffers.flagged) = 4 * capCount

C23_Witness ==
    /\ geoDone
    /\ Len(geoSegments) = 3
    /\ geoStartCap # Null /\ geoEndCap # Null
    /\ geoFacts[1].counts.positions = 3 * 2 * 200 + 8
    /\ geoBuffers[1].flagged = 1200..1207
    /\ Cardinality(geoBuffers[1].triangles) = 5

\* The number of chunk windows of a list of n >= 4 points: one, and one more
\* for every 9 points (or part of 9) beyond 12.
chunkWindows(n) == IF n <= 12 THEN 1 ELSE 1 + ((n - 12 + 8) \div 9)

\* The sum over the chunks of (chunk length - 1).
RECURSIVE chunkSegmentSum(_, _)
chunkSegmentSum(chunks, k) ==
    IF k > Len(chunks) THEN 0
    ELSE (Len(chunks[k].points) - 1) + chunkSegmentSum(chunks, k + 1)

\* C29: for a stroke of n >= 4 points (every chunk fit succeeds) getStats
\* reports totalPoints = n, chunkCount = the number of chunk windows, which
\* is the number of meshes, and totalSegments = the sum over the chunks of
\* (chunk length - 1) = (n - 1) + (3 - 1) * (chunkCount - 1); totalSegments
\* is n - 1 exactly for the single-chunk strokes.  For fewer than 4 points
\* there is no stroke and getStats(null) is null.
C29_StatsCountOverlapTwice ==
    stats # Null =>
        LET n == Len(chkPoints)
        IN  IF n < 4 THEN stats[1] = Null
            ELSE /\ stats[1] # Null
                 /\ stats[1][1].totalPoints = n
                 /\ stats[1][1].chunkCount = chunkWindows(n)
                 /\ stats[1][1].chunkCount = Len(createChunks(chkPoints))
                 /\ stats[1][1].chunkCount = Len(strokes[1].meshes)
                 /\ stats[1][1].totalSegments
                        = chunkSegmentSum(createChunks(chkPoints), 1)
                 /\ stats[1][1].totalSegments
                        = (n - 1) + (3 - 1) * (stats[1][1].chunkCount - 1)
                 /\ (stats[1][1].totalSegments = n - 1) <=> (stats[1][1].chunkCount = 1)

C29_Witness ==
    /\ stats # Null /\ stats[1] # Null
    /\ stats[1][1].totalPoints = 22
    /\ stats[1][1].chunkCount = 3
    /\ stats[1][1].totalSegments = 25

\* The ids of the strokes of a list, in the list's order.
idsOf(strokeList) == [k \in 1..Len(strokeList) |-> strokeList[k].id]

\* C28: under any order of createStroke, deleteStroke and deleteStrokes
\* calls the stroke list holds exactly the strokes created (non-null) and
\* not deleted since, each once and in creation order: a createStroke that
\* returns a stroke appends it, one that returns null changes nothing; a
\* delete call removes the strokes it names and keeps the others as they
\* were and in their order; deleting only strokes that are not stored leaves
\* the list unchanged; getStrokeCount() is the number of successful
\* creations minus the number of deletions of stored strokes.
C28_StoreListsLiveStrokes ==
    /\ [](Len(strokes) = apiCreated - apiDeleted)
    /\ [](\A j, k \in 1..Len(strokes) : j < k => strokes[j].id < strokes[k].id)
    /\ [][call'.handler = "createStroke" =>
             IF call'.createStroke = "stroke"
             THEN /\ idsOf(strokes') = Append(idsOf(strokes), nextId)
                  /\ SubSeq(strokes', 1, Len(strokes)) = strokes
                  /\ \A k \in 1..Len(knownStrokes) : knownStrokes[k].id < nextId
             ELSE strokes' = strokes]_vars
    /\ [][call'.handler \in {"deleteStroke", "deleteStrokes"} =>
             LET named == {apiArgs'[k] : k \in 1..Len(apiArgs')}
             IN  /\ strokes' = SelectSeq(strokes, LAMBDA o : o.id \notin named)
                 /\ (named \cap {strokes[k].id : k \in 1..Len(strokes)} = {})
                        => strokes' = strokes]_vars

C28_Witness ==
    /\ apiCreated = 3
    /\ apiDeleted = 1
    /\ Len(strokes) = 2
    /\ Len(held) = 1
    /\ strokes[1].id < held[1].id
    /\ held[1].id < strokes[2].id
    /\ call.handler = "deleteStrokes"
    /\ apiArgs = <<held[1].id, held[1].id>>

\* C27: during a drag session, after any sequence of updateDrag calls, each
\* point of each selected stroke has x and y equal to its position at
\* startDragging plus (latest pointer position - drag start point),
\* whatever the pointer positions in between, and its z equal to its z at
\* startDragging (before the first updateDrag the points are where they
\* were); during a scale session every point's z is its z at startScaling.
C27_DragOffsetFromStart ==
    \A e \in {atStart[k] : k \in 1..Len(atStart)} :
        LET now == objectOf(e.stroke, strokes, images).points
        IN  /\ Len(now) = Len(e.points)
            /\ isDragging =>
                   \A i \in 1..Len(now) :
                       /\ now[i].z = e.points[i].z
                       /\ now[i].x = e.points[i].x
                              + (IF pointer = Null THEN 0
                                 ELSE pointer[1].x - dragStartPoint[1].x)
                       /\ now[i].y = e.points[i].y
                              + (IF pointer = Null THEN 0
                                 ELSE pointer[1].y - dragStartPoint[1].y)
            /\ isScaling => \A i \in 1..Len(now) : now[i].z = e.points[i].z

C27_Witness ==
    /\ isDragging
    /\ Len(atStart) = 2
    /\ dragStartPoint = Some(Vector3(100, 100, 3))
    /\ pointer = Some(Vector3(Fix(5), Fix(2), 9))
    /\ call.handler = "updateDrag"
    /\ \E k \in 1..2 : /\ strokes[k].points[2] = Vector3(Fix(6) - 100, Fix(2) - 100, 1)
                       /\ strokes[k].points[3].z = 2

C27_ScaleWitness ==
    /\ isScaling
    /\ currentFlipX
    /\ Len(atStart) = 2
    /\ pointer # Null
    /\ \E k \in 1..2 : /\ strokes[k].points[3].z = 2
                       /\ strokes[k].points # atStart[k].points

\* Point i of the ribbon has a zero tangent estimate.
zeroTangentAt(i) ==
    LET tangent == tangentAt(ribbonPoints, i)
    IN  tangent.x = 0 /\ tangent.y = 0

\* The two vertices of point i lie halfWidth from it (to one grid unit), on
\* opposite sides.
offsetByHalfWidth(i) ==
    LET point == ribbonPoints[i]
        left == ribbonPositions[2 * i - 1]
        right == ribbonPositions[2 * i]
        dx == left.x - point.x
        dy == left.y - point.y
    IN  /\ right.x - point.x = 0 - dx
        /\ right.y - point.y = 0 - dy
        /\ left.z = point.z /\ right.z = point.z
        /\ Abs(sqrt(dx * dx + dy * dy) - ribbonHalfWidth) <= 1

\* C22: in both preview ribbon builders, a point whose estimated tangent has
\* zero length still gets its two side vertices offset by the half-width on
\* either side of the point (no collapse, no undefined value).
C22_ZeroTangentKeepsWidth ==
    Len(ribbonPoints) >= 2 =>
        /\ Len(ribbonPositions) = 2 * Len(ribbonPoints)
        /\ \A i \in 1..Len(ribbonPoints) : zeroTangentAt(i) => offsetByHalfWidth(i)

\* What the builders do keep: every point with a non-zero tangent gets the
\* half-width on either side, and a point with a zero tangent gets both
\* vertices on the point itself.
RibbonWidthWhereTangent ==
    Len(ribbonPoints) >= 2 =>
        \A i \in 1..Len(ribbonPoints) :
            IF zeroTangentAt(i)
                THEN /\ ribbonPositions[2 * i - 1] = ribbonPoints[i]
                     /\ ribbonPositions[2 * i] = ribbonPoints[i]
            ELSE offsetByHalfWidth(i)

\* The calls to strokeRenderer.startStroke and endStroke in calls alternate,
\* starting from a renderer with (open) or without a stroke of the manager.
RECURSIVE alternating(_, _)
alternating(open, calls) ==
    IF calls = <<>> THEN TRUE
    ELSE IF Head(calls) = "startStroke" THEN ~open /\ alternating(TRUE, Tail(calls))
    ELSE IF Head(calls) = "endStroke" THEN open /\ alternating(FALSE, Tail(calls))
    ELSE alternating(open, Tail(calls))

\* The manager's calls to startStroke and endStroke strictly alternate,
\* starting with startStroke.
VRCallsAlternate == [][dm' # Null => alternating(vrOpen, dm'[1].calls)]_vars

\* The draw-end callback has run once for every stroke started and ended,
\* and not yet for the stroke that is open.
VRDrawEndOncePerStroke ==
    vrDrawEnds = (IF vrOpen \/ vrStrokes = 0 THEN 0 ELSE 1)

\* After update() the state is DRAWING exactly when a stroke is active.
VRStateMatchesStroke ==
    vrLast = "update" => (dm[1].state = "DRAWING" <=> dm[1].isDrawing)

\* The same, for the sessions in which the draw-end callback never throws.
VRStateMatchesStrokeWithoutDebug ==
    (vrLast = "update" /\ ~vrDebugMode) => (dm[1].state = "DRAWING" <=> dm[1].isDrawing)

\* C24: for any sequence of frames (pen grabbed or not, touching or not),
\* release callbacks and dispose, the manager's calls to
\* strokeRenderer.startStroke and endStroke strictly alternate starting with
\* startStroke, the draw-end callback fires exactly once per started stroke,
\* and after each update() the state is DRAWING exactly when a stroke is
\* active.
C24_VRStrokesBracketed ==
    /\ VRCallsAlternate
    /\ [](VRDrawEndOncePerStroke /\ VRStateMatchesStroke)

\* The draw callbacks in calls are well bracketed after open starts that
\* await their end.
RECURSIVE bracketed(_, _)
bracketed(open, calls) ==
    IF calls = <<>> THEN TRUE
    ELSE IF Head(calls) = "onDrawStart" THEN open = 0 /\ bracketed(1, Tail(calls))
    ELSE IF Head(calls) = "onDrawEnd" THEN open = 1 /\ bracketed(0, Tail(calls))
    ELSE open = 1 /\ bracketed(open, Tail(calls))

\* C25: for any sequence of mouse and touch events, onDrawStart and
\* onDrawEnd strictly alternate starting with onDrawStart, and onDrawMove is
\* only emitted between a start and its end.
C25_DrawCallbacksBracketed == [][bracketed(imOpen, imCalls')]_vars

\* What holds of the callbacks: an end or a move is never emitted without a
\* start before it that has not been ended, and isDrawing is set only
\* while a start awaits its end.
InputEndAndMoveFollowStart ==
    /\ [][\A k \in 1..Len(imCalls') :
              imCalls'[k] \in {"onDrawEnd", "onDrawMove"} => imOpen >= 1]_vars
    /\ [](imIsDrawing => imOpen >= 1)

\* C26: while drawing is disabled no mouse or touch event causes
\* onDrawStart to be called, and setDrawingEnabled(false) during an active
\* stroke ends it with exactly one onDrawEnd.
C26_NoDrawStartWhileDisabled ==
    [][/\ ~imDrawingEnabled => \A k \in 1..Len(imCalls') : imCalls'[k] # "onDrawStart"
       /\ (imLast' = "setDrawingEnabled(false)" /\ imIsDrawing)
              => (imCalls' = <<"onDrawEnd">> /\ ~imIsDrawing')]_vars

\* What holds while drawing is disabled: no mouse event calls onDrawStart,
\* and setDrawingEnabled(false) ends an active stroke with one onDrawEnd and
\* calls nothing otherwise.
InputMouseGatedByDrawingEnabled ==
    [][/\ (~imDrawingEnabled /\ imLast' = "onMouseDown") => imCalls' = <<>>
       /\ imLast' = "setDrawingEnabled(false)"
              => /\ imCalls' = (IF imIsDrawing THEN <<"onDrawEnd">> ELSE <<>>)
                 /\ ~imIsDrawing' /\ ~imDrawingEnabled']_vars

====
